---- MODULE Spec2Model ----
(***************************************************************************)
(* A model of the claude-api-py client library: the urllib based transport *)
(* (claude/custom_requests.py), the header composition and the streaming   *)
(* fold of ClaudeClient (claude/claude_client.py), and the header merge of *)
(* the earlier ClaudeAPI implementation (src/claude_impl.py).              *)
(*                                                                         *)
(* One client is constructed in Init and then used synchronously, one call *)
(* at a time.  The variables request, net, response, raised and the        *)
(* streaming locals describe the call in progress, or the last call made;  *)
(* every call starts by resetting them.                                    *)
(*                                                                         *)
(* Optional[T] is modelled as a sequence: <<>> is None, <<v>> is v.        *)
(* Dictionaries are functions from key strings to values.  Text and bytes  *)
(* are strings, concatenated with \o.                                      *)
(***************************************************************************)
EXTENDS Integers, Sequences, FiniteSets, TLC

VARIABLES
    impl,                   \* the class constructed: "ClaudeClient" or "ClaudeAPI"
    session_key,            \* ClaudeClient._session_key
    user_agent,             \* ClaudeClient._user_agent
    spoofed_headers,        \* ClaudeClient._spoofed_headers
    op,                     \* the call in progress, or the last call made
    pc,                     \* "idle", "folding", "streaming", "done"
    per_call,               \* the headers this call lays over the spoofed ones
    merged,                 \* the local dict `header` after its update() calls
    header,                 \* the dict handed to the transport as headers
    request,                \* Optional: the urllib Request handed to urlopen
    net,                    \* what the network does to this call
    response,               \* Optional: the Response returned by the transport
    raised,                 \* the exception that left the call (NoExc if none)
    printed,                \* what sse() printed on stdout
    gen,                    \* the generator of _send_message: "none", "created",
                            \* "suspended" (at its yield), "exhausted", "raised",
                            \* "closed" (abandoned by the consumer)
    pulled,                 \* number of events read from the SSE client
    yielded,                \* the decoded events handed to the consumer so far
    aggregated_completion,  \* send_message: list of fragments
    final_response,         \* send_message: Optional last event
    result,                 \* send_message: Optional returned record
    conn,                   \* the connection of sse(): "none", "open", "closed"
    form_data_obj,          \* Optional: the FormData object of the call
    encode_result,          \* Optional: what encode() returned for the form as it is
    calls,                  \* concurrent folds: the locals of each send_message call
    module_HEADERS,         \* constants.HEADERS, the dict a default client aliases
    current_conversation,   \* ClaudeWrapper._current_conversation (Optional)
    deleted_since_set,      \* history: uuids the wrapper deleted since the context was set
    steps                   \* the client calls the last wrapper operation made, in order

vars == <<impl, session_key, user_agent, spoofed_headers, op, pc, per_call,
          merged, header,
          request, net, response, raised, printed, gen, pulled, yielded,
          aggregated_completion, final_response, result, conn, form_data_obj,
          encode_result, calls, module_HEADERS, current_conversation,
          deleted_since_set, steps>>

clientVars == <<impl, session_key, user_agent, spoofed_headers>>
formVars == <<form_data_obj, encode_result>>
twoVars == <<calls, module_HEADERS>>
wrapperVars == <<current_conversation, deleted_since_set, steps>>

None == <<>>
Some(v) == <<v>>

(***************************************************************************)
(* Dictionaries.                                                           *)
(***************************************************************************)
EmptyDict == [k \in {} |-> ""]

\* dict.update(other): the keys of other are written over those of d.
Update(d, other) ==
    [k \in DOMAIN d \cup DOMAIN other |->
        IF k \in DOMAIN other THEN other[k] ELSE d[k]]

(***************************************************************************)
(* Constants of claude/constants.py.                                       *)
(***************************************************************************)
BASE_URL == "https://claude.ai"
GET_ORGANIZATIONS_API_ENDPOINT == "/api/organizations"
APPEND_MESSAGE_API_ENDPOINT == "/api/append_message"
CONVERT_DOCUMENT_API_ENDPOINT == "/api/convert_document"
USER_AGENT ==
    "Mozilla/5.0 (Windows NT 10.0; Win64; x64; rv:109.0) Gecko/20100101 Firefox/115.0"

HEADERS ==
    ("content-type" :> "application/json") @@
    ("authority" :> "claude.ai") @@
    ("accept" :> "*/*") @@
    ("accept-language" :> "en-US,en;q=0.9") @@
    ("dnt" :> "1") @@
    ("sec-fetch-dest" :> "empty") @@
    ("sec-fetch-mode" :> "navigate") @@
    ("sec-fetch-site" :> "same-origin") @@
    ("upgrade-insecure-requests" :> "1") @@
    ("connection" :> "keep-alive")

(***************************************************************************)
(* The inputs of the model: what a caller may pass to the constructor.     *)
(***************************************************************************)
SessionKeys == {"sk-ant-sid01-a"}
UserAgents == {USER_AGENT}

\* Caller supplied spoofed headers: one that names the keys the client sets
\* itself, one without an accept entry, one with an empty accept entry.
CustomSpoofed ==
    { ("cookie" :> "sessionKey=other") @@ ("user-agent" :> "spoof") @@
      ("content-type" :> "text/plain") @@ ("accept" :> "text/html") @@
      ("dnt" :> "0"),
      ("dnt" :> "1"),
      ("accept" :> "") @@ ("x-extra" :> "1") }

\* ClaudeClient.__init__: spoofed_headers=None selects constants.HEADERS.
InitSpoofed(arg) == IF arg = None THEN HEADERS ELSE arg[1]

(***************************************************************************)
(* Exceptions.  An exception is a record of its class, the HTTP status it  *)
(* carries (HTTPError only) and its reason text.                           *)
(***************************************************************************)
Exc(cls, code, reason) == [cls |-> cls, code |-> code, reason |-> reason]
NoExc == Exc("none", None, "")

\* The classes an exception is an instance of (its class and its bases).
Bases(cls) ==
    CASE cls = "HTTPError" -> {"HTTPError", "URLError", "OSError"}
      [] cls = "URLError" -> {"URLError", "OSError"}
      [] cls = "RemoteDisconnected" ->
            {"RemoteDisconnected", "ConnectionResetError", "BadStatusLine",
             "HTTPException", "OSError"}
      [] cls = "IncompleteRead" -> {"IncompleteRead", "HTTPException"}
      [] cls = "ConnectionResetError" -> {"ConnectionResetError", "OSError"}
      [] cls = "JSONDecodeError" -> {"JSONDecodeError", "ValueError"}
      [] cls = "KeyError" -> {"KeyError", "LookupError"}
      [] OTHER -> {cls}

IsInstance(e, classes) == Bases(e.cls) \cap classes # {}

\* str(e) of the urllib.error exceptions.
StrExc(e) ==
    IF e.cls = "HTTPError"
    THEN "HTTP Error " \o ToString(e.code[1]) \o ": " \o e.reason
    ELSE "<urlopen error " \o e.reason \o ">"

(***************************************************************************)
(* The network.  urlopen either returns a response or raises; reading the  *)
(* returned response either returns its whole body or raises.              *)
(***************************************************************************)
\* Faults raised by urlopen: a non-2xx status (HTTPError), a refused
\* connection or a failed name lookup (URLError), and a malformed or missing
\* status line, which http.client raises from getresponse() unwrapped.
OpenFaults ==
    { Exc("HTTPError", Some(500), "Internal Server Error"),
      Exc("HTTPError", Some(404), "Not Found"),
      Exc("URLError", None, "[Errno 111] Connection refused"),
      Exc("URLError", None, "[Errno -2] Name or service not known"),
      Exc("RemoteDisconnected", None,
          "Remote end closed connection without response") }

\* Faults raised while the body of an open response is read.
ReadFaults ==
    { Exc("IncompleteRead", None, "IncompleteRead(0 bytes read)"),
      Exc("ConnectionResetError", None, "[Errno 104] Connection reset by peer") }

Bodies == {"", "[]", "{\"uuid\": \"c1\"}", "not json"}
OkStatuses == {200, 201}

Net(open, status, body, read, events) ==
    [open |-> open, status |-> status, body |-> body, read |-> read,
     events |-> events]

NoNet == Net(NoExc, 200, "", NoExc, <<>>)

\* What the network may do to one non-streaming request.
PlainNets ==
    { Net(NoExc, s, b, r, <<>>) :
          s \in OkStatuses, b \in Bodies, r \in {NoExc} \cup ReadFaults }
    \cup { Net(e, 200, "", NoExc, <<>>) : e \in OpenFaults }

(***************************************************************************)
(* claude/custom_requests.py: Response and the non-streaming transport.    *)
(***************************************************************************)
Response(ok, data, status_code, error) ==
    [ok |-> ok, data |-> data, status_code |-> status_code, error |-> error]

\* The value of a call: what it returned (Optional) and what it raised.
Returned(v) == [ret |-> Some(v), exc |-> NoExc]
Raised(e) == [ret |-> None, exc |-> e]

\* The except clause of _safe_request_read.
SafeCaught == {"HTTPError", "URLError"}

\* _safe_request_read that hands the text of the fault out as data.
safe_request_read_fault_data(n) ==
    IF n.open # NoExc
    THEN IF IsInstance(n.open, SafeCaught)
         THEN Returned(Response(FALSE, StrExc(n.open), None, Some(StrExc(n.open))))
         ELSE Raised(n.open)
    ELSE IF n.read # NoExc
    THEN Raised(n.read)
    ELSE Returned(Response(TRUE, n.body, Some(n.status), None))

\* _safe_request_read(request, data) against the network n.
safe_request_read(n) ==
    IF n.open # NoExc
    THEN \* urlopen raised: status_code is still None
         IF IsInstance(n.open, SafeCaught)
         THEN Returned(Response(FALSE, "", None, Some(StrExc(n.open))))
         ELSE Raised(n.open)
    ELSE IF n.read # NoExc
    THEN \* response.read() raised after status_code was set
         IF IsInstance(n.read, SafeCaught)
         THEN Returned(Response(FALSE, "", Some(n.status), Some(StrExc(n.read))))
         ELSE Raised(n.read)
    ELSE Returned(Response(TRUE, n.body, Some(n.status), None))

\* str.capitalize() of the header names the model uses: urllib's
\* Request.add_header stores each header under key.capitalize().
Capitalize(k) ==
    CASE k = "content-type" -> "Content-type"
      [] k = "content-length" -> "Content-length"
      [] k = "authority" -> "Authority"
      [] k = "accept" -> "Accept"
      [] k = "accept-language" -> "Accept-language"
      [] k = "dnt" -> "Dnt"
      [] k = "sec-fetch-dest" -> "Sec-fetch-dest"
      [] k = "sec-fetch-mode" -> "Sec-fetch-mode"
      [] k = "sec-fetch-site" -> "Sec-fetch-site"
      [] k = "upgrade-insecure-requests" -> "Upgrade-insecure-requests"
      [] k = "connection" -> "Connection"
      [] k = "user-agent" -> "User-agent"
      [] k = "cookie" -> "Cookie"
      [] k = "x-extra" -> "X-extra"
      [] OTHER -> k

\* for header_key, header_value in headers.items(): request.add_header(...)
AddHeaders(headers) ==
    [c \in {Capitalize(k) : k \in DOMAIN headers} |->
        headers[CHOOSE k \in DOMAIN headers : Capitalize(k) = c]]

Request(method, url, headers, data) ==
    [method |-> method, url |-> url, headers |-> AddHeaders(headers),
     data |-> data]

\* json.dumps of the request bodies the client sends.
JsonDumpsConversation(uuid) == "{\"name\": \"\", \"uuid\": \"" \o uuid \o "\"}"

\* The body dispatch of post(): bytes pass through, str is encoded, anything
\* else is dumped as JSON.  A body is [type, value]; value is the text.
PostBody(request_body) ==
    IF request_body = None THEN None
    ELSE IF request_body[1].type = "bytes" THEN Some(request_body[1].value)
    ELSE IF request_body[1].type = "str" THEN Some(request_body[1].value)
    ELSE Some(JsonDumpsConversation(request_body[1].value))

(***************************************************************************)
(* claude/claude_client.py: header composition.                            *)
(***************************************************************************)
Cookie(key) == "sessionKey=" \o key

\* _get_default_header with the spoofed headers written last.
get_default_header_spoofed_last ==
    Update(Update(Update(EmptyDict, "user-agent" :> user_agent),
                  "cookie" :> Cookie(session_key)),
           spoofed_headers)

\* _get_default_header that keeps a cookie the spoofed headers bring.
get_default_header_keep_cookie ==
    Update(Update(Update(EmptyDict, "cookie" :> Cookie(session_key)),
                  spoofed_headers),
           "user-agent" :> user_agent)

\* ClaudeClient._get_default_header
get_default_header ==
    Update(Update(Update(EmptyDict, spoofed_headers),
                  "user-agent" :> user_agent),
           "cookie" :> Cookie(session_key))

\* What _get_default_header lays over the spoofed headers, and what a
\* method that sends JSON lays over them.
DefaultOver == ("user-agent" :> user_agent) @@ ("cookie" :> Cookie(session_key))
JsonOver == DefaultOver @@ ("content-type" :> "application/json")

\* header = {}; header.update(self._get_default_header())
PlainHeader == Update(EmptyDict, get_default_header)

\* ... ; header.update({"content-type": "application/json"})
JsonHeader == Update(PlainHeader, "content-type" :> "application/json")

(***************************************************************************)
(* json.loads on the texts the model's servers send.  A text outside the   *)
(* table is not JSON: json.loads raises JSONDecodeError on it.             *)
(***************************************************************************)
JsonTable ==
    ("[]" :> <<>>) @@
    ("{\"uuid\": \"c1\"}" :> [uuid |-> "c1"]) @@
    ("{\"completion\": \"A\", \"model\": \"m1\"}" :>
        [completion |-> "A", model |-> "m1"]) @@
    ("{\"completion\": \"B\", \"model\": \"m2\"}" :>
        [completion |-> "B", model |-> "m2"]) @@
    ("{\"completion\": \"C\", \"stop_reason\": \"stop_sequence\", \"model\": \"m1\"}" :>
        [completion |-> "C", stop_reason |-> "stop_sequence", model |-> "m1"]) @@
    ("{\"completion\": \"D\", \"stop_reason\": \"max_tokens\", \"model\": \"m2\"}" :>
        [completion |-> "D", stop_reason |-> "max_tokens", model |-> "m2"]) @@
    ("{\"model\": \"m3\"}" :> [model |-> "m3"]) @@
    ("{\"title\": \"T\"}" :> [title |-> "T"]) @@
    ("[{\"uuid\": \"c1\", \"name\": \"n1\"}]" :>
        << [uuid |-> "c1", name |-> "n1"] >>) @@
    ("[{\"uuid\": \"c1\", \"name\": \"n1\"}, {\"uuid\": \"c2\", \"name\": \"n2\"}]" :>
        << [uuid |-> "c1", name |-> "n1"], [uuid |-> "c2", name |-> "n2"] >>) @@
    ("{\"stop_reason\": \"stop_sequence\"}" :> [stop_reason |-> "stop_sequence"])

IsJson(text) == text \in DOMAIN JsonTable
JsonDecodeError == Exc("JSONDecodeError", None, "Expecting value")

\* json_loads that takes a text that is not JSON for an empty object.
json_loads_lenient(text) ==
    IF IsJson(text) THEN Returned(JsonTable[text]) ELSE Returned(EmptyDict)

\* json.loads(text)
json_loads(text) ==
    IF IsJson(text) THEN Returned(JsonTable[text]) ELSE Raised(JsonDecodeError)

\* Response.json(): data.decode("utf-8") then json.loads
Response_json(resp) == json_loads(resp.data)

(***************************************************************************)
(* FormData of claude/custom_requests.py.  Text and bytes of a form are    *)
(* sequences of atoms: CRLF, "--", a boundary, a name, or another run of   *)
(* characters that holds none of these.  Their length is the sum of the    *)
(* atoms' lengths.  A boundary is a fresh uuid and occurs in no content.   *)
(*                                                                         *)
(* An entry of a form is a record: key, shape ("str": a string; "pair": a  *)
(* 2-tuple (file name, binary file handle); "pair_other": a 2-tuple whose  *)
(* second element is no file handle; "triple": a tuple of another length;  *)
(* "int": a value of another type), value (the string, or the bytes the    *)
(* handle reads), file_name, and closed (the handle has been closed).      *)
(***************************************************************************)
CRLF == "\r\n"

RECURSIVE ByteLen(_)
ByteLen(bytes) ==
    IF bytes = <<>> THEN 0 ELSE Len(Head(bytes)) + ByteLen(Tail(bytes))

\* mimetypes.guess_type(file_name)[0] or "application/octet-stream"
GuessType(file_name) ==
    CASE file_name = "notes.txt" -> "text/plain"
      [] file_name = "doc.pdf" -> "application/pdf"
      [] OTHER -> "application/octet-stream"

Entry(key, shape, value, file_name, closed) ==
    [key |-> key, shape |-> shape, value |-> value, file_name |-> file_name,
     closed |-> closed]

\* d[key] = e on a dict kept as the sequence of its entries in insertion
\* order: a key already present keeps its place.
DictSet(d, e) ==
    IF \E i \in 1..Len(d) : d[i].key = e.key
    THEN [i \in 1..Len(d) |-> IF d[i].key = e.key THEN e ELSE d[i]]
    ELSE Append(d, e)

\* "isinstance(value, str)"
IsStr(e) == e.shape = "str"

\* "isinstance(value, tuple) and len(value) == 2"
IsTuple2(e) == e.shape \in {"pair", "pair_other"}

FormShapeError ==
    Exc("RuntimeError", None,
        "Incorrect constructor type during form data initialization.")

\* FormData.__init__: the entries of form_data, in order, are sorted into
\* _fields and _files; an entry that is neither a str nor a 2-tuple raises
\* RuntimeError.
FormData_init(form_data) ==
    IF \E i \in 1..Len(form_data) : ~IsStr(form_data[i]) /\ ~IsTuple2(form_data[i])
    THEN Raised(FormShapeError)
    ELSE Returned(
        [fields |-> SelectSeq(form_data, IsStr),
         files |-> SelectSeq(form_data, LAMBDA e : ~IsStr(e))])

\* FormData.add_field(key, value): the value is stored as it is.
FormData_add_field(form, e) == [form EXCEPT !.fields = DictSet(@, e)]

\* FormData.add_file(field_name, file_name, file_open): stored as they are.
FormData_add_file(form, e) == [form EXCEPT !.files = DictSet(@, e)]

\* What stops encode() at a field: CRLF.join of a value that is no str.
FieldFault(e) ==
    IF e.shape # "str"
    THEN Exc("TypeError", None, "sequence item 3: expected str instance")
    ELSE NoExc

\* What stops encode() at a file: "with file_open as f" on an object that is
\* no context manager (TypeError; AttributeError before Python 3.11), or on
\* a handle already closed.
FileFault(e) ==
    IF e.shape # "pair"
    THEN Exc("TypeError", None,
             "object does not support the context manager protocol")
    ELSE IF e.closed
    THEN Exc("ValueError", None, "I/O operation on closed file.")
    ELSE NoExc

\* The index of the first file encode() stops at, or Len(files) + 1.
RECURSIVE FirstFileFault(_, _)
FirstFileFault(files, i) ==
    IF i > Len(files) \/ FileFault(files[i]) # NoExc THEN i
    ELSE FirstFileFault(files, i + 1)

\* The exception that leaves encode(), NoExc if none: the fields are
\* written first, then the files.
EncodeFault(form) ==
    IF \E i \in 1..Len(form.fields) : FieldFault(form.fields[i]) # NoExc
    THEN FieldFault(form.fields[
             CHOOSE i \in 1..Len(form.fields) :
                 /\ FieldFault(form.fields[i]) # NoExc
                 /\ \A j \in 1..(i - 1) : FieldFault(form.fields[j]) = NoExc])
    ELSE LET k == FirstFileFault(form.files, 1)
         IN  IF k > Len(form.files) THEN NoExc ELSE FileFault(form.files[k])

\* FormAfterEncode that reads the handles and leaves them open.
FormAfterEncodeLeavesOpen(form) == form

\* The form after encode(): "with file_open as f" closes each handle that
\* was read.
FormAfterEncode(form) ==
    IF \E i \in 1..Len(form.fields) : FieldFault(form.fields[i]) # NoExc
    THEN form
    ELSE LET k == FirstFileFault(form.files, 1)
         IN  [form EXCEPT !.files =
                 [i \in 1..Len(form.files) |->
                     IF i < k THEN [form.files[i] EXCEPT !.closed = TRUE]
                     ELSE form.files[i]]]

DISPOSITION == "content-disposition: form-data; name=\""

\* EncodeFields that writes no blank line between the header and the value.
RECURSIVE EncodeFieldsNoBlankLine(_, _, _)
EncodeFieldsNoBlankLine(fields, boundary, needsCRLF) ==
    IF fields = <<>> THEN <<>>
    ELSE (IF needsCRLF THEN <<CRLF>> ELSE <<>>)
         \o << "--", boundary, CRLF, DISPOSITION, Head(fields).key, "\"", CRLF >>
         \o Head(fields).value
         \o EncodeFieldsNoBlankLine(Tail(fields), boundary, TRUE)

\* The loop "for key, value in self._fields.items()":
\* CRLF.join([boundary_segment, field_header, "", value])
RECURSIVE EncodeFields(_, _, _)
EncodeFields(fields, boundary, needsCRLF) ==
    IF fields = <<>> THEN <<>>
    ELSE (IF needsCRLF THEN <<CRLF>> ELSE <<>>)
         \o << "--", boundary, CRLF, DISPOSITION, Head(fields).key, "\"", CRLF,
               CRLF >>
         \o Head(fields).value
         \o EncodeFields(Tail(fields), boundary, TRUE)

\* EncodeFiles that writes the file's bytes as text of the platform: each
\* CRLF of the content is dropped.
RECURSIVE EncodeFilesAsText(_, _, _)
EncodeFilesAsText(files, boundary, needsCRLF) ==
    IF files = <<>> THEN <<>>
    ELSE (IF needsCRLF THEN <<CRLF>> ELSE <<>>)
         \o << "--", boundary, CRLF, DISPOSITION, Head(files).key,
               "\"; filename=\"", Head(files).file_name, "\"", CRLF,
               "content-type: ", GuessType(Head(files).file_name), CRLF, CRLF >>
         \o SelectSeq(Head(files).value, LAMBDA t : t # CRLF)
         \o EncodeFilesAsText(Tail(files), boundary, TRUE)

\* The loop "for field_name, (file_name, file_open) in self._files.items()":
\* CRLF.join([boundary_segment, field_header, content_type_header, ""]),
\* CRLF, f.read()
RECURSIVE EncodeFiles(_, _, _)
EncodeFiles(files, boundary, needsCRLF) ==
    IF files = <<>> THEN <<>>
    ELSE (IF needsCRLF THEN <<CRLF>> ELSE <<>>)
         \o << "--", boundary, CRLF, DISPOSITION, Head(files).key,
               "\"; filename=\"", Head(files).file_name, "\"", CRLF,
               "content-type: ", GuessType(Head(files).file_name), CRLF, CRLF >>
         \o Head(files).value
         \o EncodeFiles(Tail(files), boundary, TRUE)

\* FormData_encode that writes the files before the fields.
FormData_encodeFilesFirst(form, boundary) ==
    IF EncodeFault(form) # NoExc THEN Raised(EncodeFault(form))
    ELSE Returned(
        [content_type |-> "multipart/form-data; boundary=" \o boundary,
         body |-> EncodeFiles(form.files, boundary, FALSE)
                  \o EncodeFields(form.fields, boundary, form.files # <<>>)
                  \o << CRLF, "--", boundary, "--", CRLF >>])

\* FormData.encode() with generated boundary: (content_type, body), or the
\* exception that leaves it.
FormData_encode(form, boundary) ==
    IF EncodeFault(form) # NoExc THEN Raised(EncodeFault(form))
    ELSE Returned(
        [content_type |-> "multipart/form-data; boundary=" \o boundary,
         body |-> EncodeFields(form.fields, boundary, FALSE)
                  \o EncodeFiles(form.files, boundary, form.fields # <<>>)
                  \o << CRLF, "--", boundary, "--", CRLF >>])

\* FormData._generate_boundary(): a fresh uuid4 in hex, shortened here.
Boundaries == {"0a1b", "9f8e"}

\* FormHeader in which the values of the caller win over the computed ones.
FormHeaderCallerWins(headers, encoded) ==
    Update(Update("content-type" :> encoded.content_type,
                  "content-length" :> ToString(ByteLen(encoded.body))),
           headers)

\* The header copy post_form_data hands to post().
FormHeader(headers, encoded) ==
    Update(Update(headers, "content-type" :> encoded.content_type),
           "content-length" :> ToString(ByteLen(encoded.body)))

\* FormHeaders without the copy: header_copy is the caller's dict itself.
FormHeadersAliased(headers, encoded) ==
    [caller |-> FormHeader(headers, encoded),
     copy |-> FormHeader(headers, encoded)]

\* "header_copy = headers.copy()" and the two updates of the copy: the
\* caller's dict and the copy after them.
FormHeaders(headers, encoded) ==
    [caller |-> headers, copy |-> FormHeader(headers, encoded)]

(***************************************************************************)
(* src/claude_impl.py: the header merge of the earlier ClaudeAPI.          *)
(***************************************************************************)
\* ClaudeAPI.__init__: spoofed_headers=None selects {}.
LegacyInitSpoofed(arg) == IF arg = None THEN EmptyDict ELSE arg[1]

\* ClaudeAPI._get_request_header
get_request_header ==
    ("content-type" :> "application/json") @@ ("cookie" :> Cookie(session_key))

\* ClaudeAPI._attach_necessary_headers(input_headers)
attach_necessary_headers(input_headers) ==
    IF input_headers = None THEN spoofed_headers
    ELSE [k \in DOMAIN input_headers[1] \cup DOMAIN spoofed_headers |->
            IF k \in DOMAIN input_headers[1]
            THEN input_headers[1][k] ELSE spoofed_headers[k]]

\* "custom_header or self._get_request_header()": None and {} are falsy.
DefaultHeaders(custom_header) ==
    IF custom_header = None \/ custom_header[1] = EmptyDict
    THEN get_request_header ELSE custom_header[1]

\* The custom_header arguments of _request_internal the model tries.
CustomHeaders ==
    { None, Some(EmptyDict),
      Some(("content-type" :> "text/plain") @@ ("dnt" :> "9")),
      Some(("accept" :> "application/json")) }

\* _safe_request_read of src/custom_requests.py: Response(ok, data).
legacy_safe_request_read(n) ==
    IF n.open # NoExc
    THEN IF IsInstance(n.open, SafeCaught)
         THEN Returned([ok |-> FALSE, data |-> ""])
         ELSE Raised(n.open)
    ELSE IF n.read # NoExc
    THEN IF IsInstance(n.read, SafeCaught)
         THEN Returned([ok |-> FALSE, data |-> ""])
         ELSE Raised(n.read)
    ELSE Returned([ok |-> TRUE, data |-> n.body])

(***************************************************************************)
(* Init: one client has been constructed.                                  *)
(***************************************************************************)
SpoofedArgs == {None} \cup {Some(h) : h \in CustomSpoofed}

ResetStream ==
    /\ gen' = "none"
    /\ pulled' = 0
    /\ yielded' = <<>>
    /\ aggregated_completion' = <<>>
    /\ final_response' = None
    /\ printed' = <<>>
    /\ conn' = "none"

\* The call builds no FormData.
NoForm == form_data_obj' = None /\ encode_result' = None

\* Two calls may be in progress on one client at a time.
CallIds == {1, 2}

\* The locals of one send_message(stream=False) call and of its generator.
Call(state, n, p, agg, final, res, exc, hdr) ==
    [state |-> state, net |-> n, pulled |-> p, aggregated_completion |-> agg,
     final_response |-> final, result |-> res, raised |-> exc, header |-> hdr]

NoCall == Call("none", NoNet, 0, <<>>, None, None, NoExc, None)

Init ==
    /\ impl \in {"ClaudeClient", "ClaudeAPI"}
    /\ session_key \in SessionKeys
    /\ user_agent \in UserAgents
    /\ \E arg \in SpoofedArgs :
          spoofed_headers =
              IF impl = "ClaudeClient" THEN InitSpoofed(arg)
              ELSE LegacyInitSpoofed(arg)
    /\ op = "none"
    /\ pc = "idle"
    /\ per_call = EmptyDict
    /\ merged = EmptyDict
    /\ header = EmptyDict
    /\ request = None
    /\ net = NoNet
    /\ response = None
    /\ raised = NoExc
    /\ printed = <<>>
    /\ gen = "none"
    /\ pulled = 0
    /\ yielded = <<>>
    /\ aggregated_completion = <<>>
    /\ final_response = None
    /\ result = None
    /\ conn = "none"
    /\ form_data_obj = None
    /\ encode_result = None
    /\ calls = [i \in CallIds |-> NoCall]
    /\ module_HEADERS = HEADERS
    /\ current_conversation = None
    /\ deleted_since_set = {}
    /\ steps = <<>>

\* The client is used synchronously: a call starts when none is in progress.
CanStart == pc = "idle"

(***************************************************************************)
(* The non-streaming calls of ClaudeClient.  Each is one atomic step: the  *)
(* method builds its header, calls the transport and returns.              *)
(***************************************************************************)
\* "if not response.ok: return None" ... "return response.json()"
\* r is the value of the transport call.
JsonOrNone(r) ==
    IF r.exc # NoExc THEN Raised(r.exc)
    ELSE IF ~r.ret[1].ok THEN Returned(None)
    ELSE LET j == Response_json(r.ret[1])
         IN  IF j.exc # NoExc THEN Raised(j.exc) ELSE Returned(Some(j.ret[1]))

\* The state after an atomic call: over is what the method laid over the
\* spoofed headers, hdr the header it built, headers the dict the transport
\* sends, req the Request given to urlopen, r the transport's value, v the
\* method's value.
Finish(name, over, hdr, headers, req, n, r, v) ==
    /\ op' = name
    /\ pc' = "done"
    /\ per_call' = over
    /\ merged' = hdr
    /\ header' = headers
    /\ request' = req
    /\ net' = n
    /\ response' = r.ret
    /\ raised' = v.exc
    /\ result' = IF v.exc = NoExc THEN v.ret[1] ELSE None
    /\ ResetStream
    /\ UNCHANGED <<clientVars, twoVars, wrapperVars, twoVars, wrapperVars>>

\* custom_requests.get(url, headers)
get(name, over, url, headers, n) ==
    LET r == safe_request_read(n)
    IN  Finish(name, over, headers, headers,
               Some(Request("GET", url, headers, None)), n, r, JsonOrNone(r))

\* custom_requests.post(url, headers, request_body), called by a method that
\* built the local header hdr.
post(name, over, url, hdr, headers, request_body, n) ==
    LET r == safe_request_read(n)
    IN  Finish(name, over, hdr, headers,
               Some(Request("POST", url, headers, PostBody(request_body))),
               n, r, JsonOrNone(r))

\* custom_requests.delete(url, headers); delete_conversation returns response.ok
delete(name, over, url, headers, n) ==
    LET r == safe_request_read(n)
    IN  Finish(name, over, headers, headers,
               Some(Request("DELETE", url, headers, None)), n, r,
               IF r.exc # NoExc THEN Raised(r.exc)
               ELSE Returned(Some(r.ret[1].ok)))

\* ClaudeClient.get_organizations
get_organizations ==
    /\ CanStart /\ impl = "ClaudeClient"
    /\ \E n \in PlainNets :
          get("get_organizations", JsonOver, BASE_URL \o GET_ORGANIZATIONS_API_ENDPOINT,
              JsonHeader, n)
    /\ NoForm

ConversationUuids == {"c1"}

\* ClaudeClient.create_conversation
create_conversation ==
    /\ CanStart /\ impl = "ClaudeClient"
    /\ \E n \in PlainNets, u \in ConversationUuids :
          post("create_conversation", JsonOver,
               BASE_URL \o "/api/organizations/o1/chat_conversations",
               JsonHeader, JsonHeader, Some([type |-> "json", value |-> u]), n)
    /\ NoForm

\* ClaudeClient.delete_conversation
delete_conversation ==
    /\ CanStart /\ impl = "ClaudeClient"
    /\ \E n \in PlainNets, u \in ConversationUuids :
          delete("delete_conversation", DefaultOver,
                 BASE_URL \o "/api/organizations/o1/chat_conversations/" \o u,
                 PlainHeader, n)
    /\ NoForm

\* The caller decodes the Response a transport call returned: response.json()
JsonCallers == {"get_organizations", "create_conversation",
                "delete_conversation", "convert_file"}

call_json ==
    /\ pc = "done"
    /\ op \in JsonCallers
    /\ response # None
    /\ LET j == Response_json(response[1])
       IN  /\ raised' = j.exc
           /\ result' = j.ret
    /\ op' = "json"
    /\ UNCHANGED <<clientVars, twoVars, wrapperVars, pc, per_call, merged, header, request, net,
                   response, printed, gen, pulled, yielded,
                   aggregated_completion, final_response, conn, formVars>>

(***************************************************************************)
(* ClaudeClient.convert_file and custom_requests.post_form_data.           *)
(***************************************************************************)
\* The files on disk the model tries: is_file() of the path, whether the
\* bytes decode as UTF-8 (helpers.is_file_text_based), and the bytes.
Files ==
    { [path |-> "missing.bin", is_file |-> FALSE, utf8 |-> FALSE, content |-> ""],
      [path |-> "notes.txt", is_file |-> TRUE, utf8 |-> TRUE, content |-> "hello"],
      [path |-> "doc.pdf", is_file |-> TRUE, utf8 |-> FALSE, content |-> "%PDF-1.4"],
      [path |-> "blob", is_file |-> TRUE, utf8 |-> FALSE, content |-> "PK" ] }

\* pathlib.Path(file_path).suffix
Suffix(path) ==
    CASE path = "notes.txt" -> ".txt"
      [] path = "doc.pdf" -> ".pdf"
      [] OTHER -> ""

OrganizationUuids == {"o1"}

\* form_data = {"orgUuid": organization_uuid, "file": (file_path, open(...))}
UploadForm(organization_uuid, f) ==
    << Entry("orgUuid", "str", <<organization_uuid>>, "", FALSE),
       Entry("file", "pair", <<f.content>>, f.path, FALSE) >>

\* custom_requests.post_form_data(url, headers, files) with boundary b.
post_form_data(name, over, url, headers, files, b, n) ==
    LET fdo == FormData_init(files)
        enc == FormData_encode(fdo.ret[1], b)
        h == FormHeaders(headers, enc.ret[1])
    IN  IF fdo.exc # NoExc
        THEN /\ Finish(name, over, headers, headers, None, NoNet,
                       Raised(fdo.exc), Raised(fdo.exc))
             /\ NoForm
        ELSE IF enc.exc # NoExc
        THEN /\ Finish(name, over, headers, headers, None, NoNet,
                       Raised(enc.exc), Raised(enc.exc))
             /\ form_data_obj' = Some(FormAfterEncode(fdo.ret[1]))
             /\ encode_result' = None
        ELSE /\ post(name, over, url, h.caller, h.copy,
                     Some([type |-> "bytes", value |-> enc.ret[1].body]), n)
             /\ form_data_obj' = Some(FormAfterEncode(fdo.ret[1]))
             /\ encode_result' = enc.ret

\* ClaudeClient.convert_file
convert_file ==
    /\ CanStart /\ impl = "ClaudeClient"
    /\ \E f \in Files, o \in OrganizationUuids, b \in Boundaries, n \in PlainNets :
          IF ~f.is_file
          THEN /\ Finish("convert_file", EmptyDict, EmptyDict, EmptyDict, None,
                         NoNet, Raised(NoExc), Returned(None))
               /\ NoForm
          ELSE IF f.utf8
          THEN /\ Finish("convert_file", EmptyDict, EmptyDict, EmptyDict, None,
                         NoNet, Raised(NoExc),
                         Returned(Some([file_name |-> f.path,
                                        file_type |-> Suffix(f.path),
                                        file_size |-> Len(f.content),
                                        extracted_content |-> f.content])))
               /\ NoForm
          ELSE post_form_data("convert_file", DefaultOver,
                              BASE_URL \o CONVERT_DOCUMENT_API_ENDPOINT,
                              PlainHeader, UploadForm(o, f), b, n)

(***************************************************************************)
(* FormData used on its own, and post_form_data called with a form and a   *)
(* header of the caller's.                                                 *)
(***************************************************************************)
MaxFormData == 2

FormKeys == {"orgUuid", "file"}

\* The values a caller gives as plain fields: strings, and an int.
FieldEntries(key) ==
    { Entry(key, "str", <<"org-123">>, "", FALSE),
      Entry(key, "str", <<>>, "", FALSE),
      Entry(key, "str", <<"a", CRLF, "--", "b", CRLF>>, "", FALSE),
      Entry(key, "int", <<>>, "", FALSE) }

\* The values a caller gives as files: 2-tuples of a name and an open
\* binary handle, a 2-tuple of two strings, and a 3-tuple.
FileEntries(key) ==
    { Entry(key, "pair", <<"hello">>, "notes.txt", FALSE),
      Entry(key, "pair", <<CRLF, "--", "PK", CRLF, CRLF>>, "blob", FALSE),
      Entry(key, "pair_other", <<"hello">>, "notes.txt", FALSE),
      Entry(key, "triple", <<>>, "", FALSE) }

\* The dicts given to FormData(): at most MaxFormData entries, keys distinct.
FormInputs ==
    { fd \in UNION { [1..k -> UNION { FieldEntries(key) \cup FileEntries(key) :
                                          key \in FormKeys }] :
                     k \in 0..MaxFormData } :
        \A i, j \in 1..Len(fd) : i # j => fd[i].key # fd[j].key }

\* FormData(form_data)
FormData_new ==
    /\ CanStart
    /\ \E fd \in FormInputs :
          LET r == FormData_init(fd)
          IN  /\ op' = "FormData"
              /\ pc' = IF r.exc = NoExc THEN "form" ELSE "done"
              /\ form_data_obj' = r.ret
              /\ raised' = r.exc
    /\ encode_result' = None
    /\ UNCHANGED <<clientVars, twoVars, wrapperVars, per_call, merged, header, request, net,
                   response, printed, gen, pulled, yielded,
                   aggregated_completion, final_response, result, conn>>

\* form.add_field(key, value)
add_field ==
    /\ pc = "form"
    /\ \E key \in FormKeys : \E e \in FieldEntries(key) :
          form_data_obj' = Some(FormData_add_field(form_data_obj[1], e))
    /\ raised' = NoExc
    /\ encode_result' = None
    /\ UNCHANGED <<clientVars, twoVars, wrapperVars, op, pc, per_call, merged, header, request, net,
                   response, printed, gen, pulled, yielded,
                   aggregated_completion, final_response, result, conn>>

\* form.add_file(field_name, file_name, file_open)
add_file ==
    /\ pc = "form"
    /\ \E key \in FormKeys :
       \E e \in { x \in FileEntries(key) : x.shape # "triple" } :
          form_data_obj' = Some(FormData_add_file(form_data_obj[1], e))
    /\ raised' = NoExc
    /\ encode_result' = None
    /\ UNCHANGED <<clientVars, twoVars, wrapperVars, op, pc, per_call, merged, header, request, net,
                   response, printed, gen, pulled, yielded,
                   aggregated_completion, final_response, result, conn>>

\* form.encode()
encode ==
    /\ pc = "form"
    /\ \E b \in Boundaries :
          LET r == FormData_encode(form_data_obj[1], b)
          IN  /\ encode_result' = r.ret
              /\ raised' = r.exc
    /\ form_data_obj' = Some(FormAfterEncode(form_data_obj[1]))
    /\ UNCHANGED <<clientVars, twoVars, wrapperVars, op, pc, per_call, merged, header, request, net,
                   response, printed, gen, pulled, yielded,
                   aggregated_completion, final_response, result, conn>>

\* The header dicts a caller of post_form_data passes.
CallerHeaders ==
    { EmptyDict,
      ("cookie" :> "sessionKey=k") @@ ("content-type" :> "text/plain")
          @@ ("content-length" :> "999") }

\* custom_requests.post_form_data(url, headers, files) called on its own.
call_post_form_data ==
    /\ CanStart
    /\ \E headers \in CallerHeaders, files \in FormInputs, b \in Boundaries,
          n \in PlainNets :
          post_form_data("post_form_data", EmptyDict,
                         BASE_URL \o CONVERT_DOCUMENT_API_ENDPOINT,
                         headers, files, b, n)

(***************************************************************************)
(* ClaudeAPI._request_internal of src/claude_impl.py.                      *)
(***************************************************************************)
RequestTypes == {"GET", "POST", "DELETE"}

request_internal ==
    /\ CanStart /\ impl = "ClaudeAPI"
    /\ \E custom_header \in CustomHeaders, t \in RequestTypes, n \in PlainNets :
          LET hdr == attach_necessary_headers(Some(DefaultHeaders(custom_header)))
              r == legacy_safe_request_read(n)
          IN  Finish("request_internal", DefaultHeaders(custom_header), hdr, hdr,
                     Some(Request(t, BASE_URL \o GET_ORGANIZATIONS_API_ENDPOINT,
                                  hdr, None)),
                     n, r, r)
    /\ NoForm

(***************************************************************************)
(* Streaming: custom_requests.sse and ClaudeClient._send_message, a        *)
(* generator, and the two consumers of it: the fold of send_message        *)
(* (stream=False) and the caller of send_message(stream=True).             *)
(***************************************************************************)
MaxEvents == 4

\* The data of the server-sent events the model's servers send.
EventTexts ==
    { "{\"completion\": \"A\", \"model\": \"m1\"}",
      "{\"completion\": \"B\", \"model\": \"m2\"}",
      "{\"completion\": \"C\", \"stop_reason\": \"stop_sequence\", \"model\": \"m1\"}",
      "{\"completion\": \"D\", \"stop_reason\": \"max_tokens\", \"model\": \"m2\"}",
      "{\"model\": \"m3\"}",
      "not json" }

EventSeqs == UNION { [1..k -> EventTexts] : k \in 0..MaxEvents }

\* The fault that ends an open stream between two events.
StreamFaults ==
    { Exc("ConnectionResetError", None, "[Errno 104] Connection reset by peer") }

\* What the network may do to one streaming request: urlopen fails, or the
\* response delivers events and then closes (read = NoExc) or fails.
StreamNets ==
    { Net(NoExc, 200, "", r, evs) :
          r \in {NoExc} \cup StreamFaults, evs \in EventSeqs }
    \cup { Net(e, 200, "", NoExc, <<>>) : e \in OpenFaults }

\* json.dumps(request_body) of _send_message for the message "hi".
JsonDumpsMessage ==
    "{\"organization_uuid\": \"o1\", \"conversation_uuid\": \"c1\", "
    \o "\"text\": \"hi\", \"attachments\": [], \"completion\": "
    \o "{\"prompt\": \"hi\", \"timezone\": \"America/New_York\", "
    \o "\"model\": \"claude-2.1\"}}"

EVENT_STREAM == "text/event-stream,text/event-stream"

\* StreamHeader that overwrites the accept entry instead of extending it.
StreamHeaderOverwrite(hdr) ==
    IF "accept" \notin DOMAIN hdr THEN Raised(Exc("KeyError", None, "'accept'"))
    ELSE Returned([hdr EXCEPT !["accept"] = "text/event-stream,text/event-stream"])

\* _send_message, lines "if header["accept"]: ... else: ...".  The lookup
\* raises KeyError when the merged header has no accept entry.
StreamHeader(hdr) ==
    IF "accept" \notin DOMAIN hdr THEN Raised(Exc("KeyError", None, "'accept'"))
    ELSE IF hdr["accept"] # ""
    THEN Returned([hdr EXCEPT !["accept"] = @ \o "," \o EVENT_STREAM])
    ELSE Returned([hdr EXCEPT !["accept"] = EVENT_STREAM])

\* The except clause of sse().
SseCaught == {"HTTPError", "URLError"}

\* One resumption of the generator: kind is "item" (it yielded item), "stop"
\* (it returned: StopIteration) or "raise" (exc left it).
Step(kind, item, exc, p, out) ==
    [kind |-> kind, item |-> item, exc |-> exc, pulled |-> p, printed |-> out]

\* NextEvent that hands an event that does not decode on as an empty record.
NextEventLenient(n, p) ==
    IF p < Len(n.events)
    THEN LET j == json_loads(n.events[p + 1])
         IN  IF j.exc # NoExc
             THEN Step("item", EmptyDict, NoExc, p + 1, <<>>)
             ELSE Step("item", j.ret[1], NoExc, p + 1, <<>>)
    ELSE IF n.read = NoExc
    THEN Step("stop", EmptyDict, NoExc, p, <<>>)
    ELSE IF IsInstance(n.read, SseCaught)
    THEN Step("stop", EmptyDict, NoExc, p, <<StrExc(n.read)>>)
    ELSE Step("raise", EmptyDict, n.read, p, <<>>)

\* NextEvent that drops an event whenever another one has arrived behind it.
NextEventDropping(n, p) ==
    IF p < Len(n.events)
    THEN LET q == IF p + 1 < Len(n.events) THEN p + 2 ELSE p + 1
             j == json_loads(n.events[q])
         IN  IF j.exc # NoExc
             THEN Step("raise", EmptyDict, j.exc, q, <<>>)
             ELSE Step("item", j.ret[1], NoExc, q, <<>>)
    ELSE IF n.read = NoExc
    THEN Step("stop", EmptyDict, NoExc, p, <<>>)
    ELSE IF IsInstance(n.read, SseCaught)
    THEN Step("stop", EmptyDict, NoExc, p, <<StrExc(n.read)>>)
    ELSE Step("raise", EmptyDict, n.read, p, <<>>)

\* "for event in client.events(): yield event.data", then json.loads of the
\* data in _send_message, with p events read so far.
NextEvent(n, p) ==
    IF p < Len(n.events)
    THEN LET j == json_loads(n.events[p + 1])
         IN  IF j.exc # NoExc
             THEN Step("raise", EmptyDict, j.exc, p + 1, <<>>)
             ELSE Step("item", j.ret[1], NoExc, p + 1, <<>>)
    ELSE IF n.read = NoExc
    THEN Step("stop", EmptyDict, NoExc, p, <<>>)
    ELSE IF IsInstance(n.read, SseCaught)
    THEN Step("stop", EmptyDict, NoExc, p, <<StrExc(n.read)>>)
    ELSE Step("raise", EmptyDict, n.read, p, <<>>)

\* The first resumption: the header is built, sse() opens the connection,
\* and the first event is read.
FirstEvent(n) ==
    LET h == StreamHeader(JsonHeader)
    IN  IF h.exc # NoExc THEN Step("raise", EmptyDict, h.exc, 0, <<>>)
        ELSE IF n.open = NoExc THEN NextEvent(n, 0)
        ELSE IF IsInstance(n.open, SseCaught)
        THEN Step("stop", EmptyDict, NoExc, 0, <<StrExc(n.open)>>)
        ELSE Step("raise", EmptyDict, n.open, 0, <<>>)

\* next(generator)
GenNext == IF gen = "created" THEN FirstEvent(net) ELSE NextEvent(net, pulled)

GenAfter(s) ==
    CASE s.kind = "item" -> "suspended"
      [] s.kind = "stop" -> "exhausted"
      [] OTHER -> "raised"

\* The connection after one resumption: urlopen() opens it, reading the
\* response to its end closes it, and sse() itself never closes it.
ConnAfter(s) ==
    LET opened == IF gen = "created"
                  THEN StreamHeader(JsonHeader).exc = NoExc /\ net.open = NoExc
                  ELSE conn = "open"
    IN  IF ~opened THEN conn
        ELSE IF s.kind = "stop" /\ net.read = NoExc THEN "closed"
        ELSE "open"

\* The effect of one resumption on the generator and on what it sent.
Resume(s) ==
    /\ gen' = GenAfter(s)
    /\ conn' = ConnAfter(s)
    /\ pulled' = s.pulled
    /\ printed' = printed \o s.printed
    /\ yielded' = IF s.kind = "item" THEN Append(yielded, s.item) ELSE yielded
    /\ IF gen = "created"
       THEN LET h == StreamHeader(JsonHeader)
            IN  /\ merged' = JsonHeader
                /\ per_call' = JsonOver
                /\ header' = IF h.exc = NoExc THEN h.ret[1] ELSE JsonHeader
                /\ request' =
                      IF h.exc = NoExc
                      THEN Some(Request("POST",
                                        BASE_URL \o APPEND_MESSAGE_API_ENDPOINT,
                                        h.ret[1], Some(JsonDumpsMessage)))
                      ELSE None
       ELSE UNCHANGED <<merged, per_call, header, request>>

\* The state in which a streaming call starts: the generator is created and
\* nothing of its body has run.
StartStream(name, n, at) ==
    /\ op' = name
    /\ pc' = at
    /\ net' = n
    /\ gen' = "created"
    /\ pulled' = 0
    /\ yielded' = <<>>
    /\ aggregated_completion' = <<>>
    /\ final_response' = None
    /\ printed' = <<>>
    /\ per_call' = EmptyDict
    /\ merged' = EmptyDict
    /\ header' = EmptyDict
    /\ request' = None
    /\ response' = None
    /\ raised' = NoExc
    /\ result' = None
    /\ conn' = "none"
    /\ NoForm
    /\ UNCHANGED <<clientVars, twoVars, wrapperVars, twoVars, wrapperVars>>

\* ''.join(aggregated_completion)
RECURSIVE Join(_)
Join(parts) == IF parts = <<>> THEN "" ELSE Head(parts) \o Join(Tail(parts))

STOP_SEQUENCE == "stop_sequence"

\* Aggregate that keeps the latest fragment only.
AggregateLatest(agg, elem) ==
    IF "completion" \in DOMAIN elem THEN <<elem["completion"]>> ELSE agg

\* "if 'completion' in elem: aggregated_completion.append(elem['completion'])"
Aggregate(agg, elem) ==
    IF "completion" \in DOMAIN elem THEN Append(agg, elem["completion"]) ELSE agg

\* IsStop without its break: the loop never leaves early.
IsStopNever(elem) == FALSE

\* IsStop that takes any stop_reason for the terminal one.
IsStopAnyReason(elem) == "stop_reason" \in DOMAIN elem

\* "if 'stop_reason' in elem and elem['stop_reason'] == STOP_SEQUENCE: break"
IsStop(elem) ==
    "stop_reason" \in DOMAIN elem /\ elem["stop_reason"] = STOP_SEQUENCE

\* FoldResult without the test for None: an empty message is returned.
FoldResultNeverNone(final, agg) ==
    IF final = None THEN Some("completion" :> Join(agg))
    ELSE Some(Update(final[1], "completion" :> Join(agg)))

\* FoldResult that returns the last event as it came when no event carried
\* a fragment.
FoldResultKeepsLast(final, agg) ==
    IF final = None THEN None
    ELSE IF agg = <<>> THEN final
    ELSE Some(Update(final[1], "completion" :> Join(agg)))

\* The lines after the loop of send_message: None when no event was seen,
\* else the last event with its completion replaced.
FoldResult(final, agg) ==
    IF final = None THEN None
    ELSE Some(Update(final[1], "completion" :> Join(agg)))

\* The value of send_message(stream=False) against the network n: the loop
\* run to its end, from the generator's resumption after p events.
RECURSIVE FoldFrom(_, _, _, _, _)
FoldFrom(n, first, p, agg, final) ==
    LET s == IF first THEN FirstEvent(n) ELSE NextEvent(n, p)
    IN  IF s.kind = "item"
        THEN IF IsStop(s.item)
             THEN Returned(FoldResult(Some(s.item), Aggregate(agg, s.item)))
             ELSE FoldFrom(n, FALSE, s.pulled, Aggregate(agg, s.item),
                           Some(s.item))
        ELSE IF s.kind = "stop" THEN Returned(FoldResult(final, agg))
        ELSE Raised(s.exc)

send_message_value(n) == FoldFrom(n, TRUE, 0, <<>>, None)

\* ClaudeClient.send_message(..., stream=False) is called.
send_message ==
    /\ CanStart /\ impl = "ClaudeClient"
    /\ \E n \in StreamNets : StartStream("send_message", n, "folding")

\* One iteration of the loop of send_message: the next element is asked of
\* the generator and the loop body runs on it; when the loop ends (by
\* exhaustion or by break) the method returns.
FoldStep ==
    /\ pc = "folding"
    /\ LET s == GenNext
       IN  /\ Resume(s)
           /\ IF s.kind = "item"
              THEN LET agg == Aggregate(aggregated_completion, s.item)
                   IN  /\ final_response' = Some(s.item)
                       /\ aggregated_completion' = agg
                       /\ raised' = NoExc
                       /\ IF IsStop(s.item)
                          THEN /\ result' = FoldResult(Some(s.item), agg)
                               /\ pc' = "done"
                          ELSE /\ result' = None
                               /\ pc' = "folding"
              ELSE IF s.kind = "stop"
              THEN /\ result' = FoldResult(final_response, aggregated_completion)
                   /\ pc' = "done"
                   /\ raised' = NoExc
                   /\ UNCHANGED <<final_response, aggregated_completion>>
              ELSE /\ raised' = s.exc
                   /\ pc' = "done"
                   /\ UNCHANGED <<final_response, aggregated_completion, result>>
    /\ UNCHANGED <<clientVars, twoVars, wrapperVars, op, net, response, formVars>>

\* ClaudeClient.send_message(..., stream=True) is called: the generator is
\* returned to the caller.
send_message_stream ==
    /\ CanStart /\ impl = "ClaudeClient"
    /\ \E n \in StreamNets : StartStream("send_message_stream", n, "streaming")

\* The caller asks the generator for its next element.
LiveNext ==
    /\ pc = "streaming"
    /\ LET s == GenNext
       IN  /\ Resume(s)
           /\ raised' = s.exc
           /\ pc' = IF s.kind = "item" THEN "streaming" ELSE "done"
    /\ UNCHANGED <<clientVars, twoVars, wrapperVars, op, net, response, final_response,
                   aggregated_completion, result, formVars>>

\* The caller abandons the generator without exhausting it.
LiveAbandon ==
    /\ pc = "streaming"
    /\ gen' = "closed"
    /\ pc' = "done"
    /\ UNCHANGED <<clientVars, twoVars, wrapperVars, op, net, response, raised, printed, pulled,
                   yielded, aggregated_completion, final_response, result,
                   per_call, merged, header, request, conn, formVars>>

\* The interpreter finalises the response object of a call that is over,
\* which closes its connection; when it does so is not the program's choice.
Collect ==
    /\ pc = "done"
    /\ conn = "open"
    /\ conn' = "closed"
    /\ UNCHANGED <<clientVars, twoVars, wrapperVars, op, pc, net, response, raised, printed, pulled,
                   yielded, aggregated_completion, final_response, result,
                   per_call, merged, header, request, gen, formVars>>

\* The caller is done with the value of the last call and drops it: the
\* locals of the call are gone, the client stays as it is.
Return ==
    /\ pc \in {"done", "form"}
    /\ pc' = "idle"
    /\ op' = "none"
    /\ per_call' = EmptyDict
    /\ merged' = EmptyDict
    /\ header' = EmptyDict
    /\ request' = None
    /\ net' = NoNet
    /\ response' = None
    /\ raised' = NoExc
    /\ result' = None
    /\ ResetStream
    /\ NoForm
    /\ UNCHANGED <<clientVars, twoVars, wrapperVars, twoVars, wrapperVars>>

(***************************************************************************)
(* Two send_message(stream=False) calls on one client, their loop          *)
(* iterations interleaved, as two threads that share the client make them. *)
(* What sse() prints is left out here.                                     *)
(***************************************************************************)
MaxTwoEvents == 2

TwoTexts ==
    { "{\"completion\": \"A\", \"model\": \"m1\"}",
      "{\"completion\": \"C\", \"stop_reason\": \"stop_sequence\", \"model\": \"m1\"}",
      "not json" }

TwoNets ==
    { Net(NoExc, 200, "", r, evs) :
          r \in {NoExc} \cup StreamFaults,
          evs \in UNION { [1..k -> TwoTexts] : k \in 0..MaxTwoEvents } }
    \cup { Net(Exc("HTTPError", Some(500), "Internal Server Error"),
               200, "", NoExc, <<>>) }

\* StoredSpoofed when the header is built in the client's own dict.
StoredSpoofedAliased(built) == built

\* self._spoofed_headers after a call has built its header: the header is
\* a dict of its own, filled by update(), and `header["accept"] += ...`
\* rebinds an entry of that dict only.
StoredSpoofed(built) == spoofed_headers

\* constants.HEADERS after it: the dict of a client made without spoofed
\* headers is that very dict.
ModuleHeadersAfter(stored) ==
    IF spoofed_headers = module_HEADERS THEN stored ELSE module_HEADERS

\* AggOf when the list of fragments is the first call's.
AggOfFirst(c, i) == c[1].aggregated_completion

\* "aggregated_completion = []": the list is a local of the call.
AggOf(c, i) == c[i].aggregated_completion

\* The locals of call i after the resumption s of its generator and the
\* loop body, or the lines after the loop, have run.
FoldOn(c, i, s) ==
    LET agg == AggOf(c, i)
    IN  IF s.kind = "item"
        THEN [c[i] EXCEPT
                 !.state = IF IsStop(s.item) THEN "done" ELSE "suspended",
                 !.pulled = s.pulled,
                 !.aggregated_completion = Aggregate(agg, s.item),
                 !.final_response = Some(s.item),
                 !.result = IF IsStop(s.item)
                            THEN FoldResult(Some(s.item), Aggregate(agg, s.item))
                            ELSE None]
        ELSE IF s.kind = "stop"
        THEN [c[i] EXCEPT !.state = "done", !.pulled = s.pulled,
                          !.result = FoldResult(c[i].final_response, agg)]
        ELSE [c[i] EXCEPT !.state = "done", !.pulled = s.pulled,
                          !.raised = s.exc]

\* A thread calls send_message(stream=False).
StartFold ==
    /\ pc = "idle"
    /\ \E i \in CallIds, n \in TwoNets :
          /\ calls[i].state = "none"
          /\ calls' = [calls EXCEPT
                          ![i] = Call("created", n, 0, <<>>, None, None, NoExc,
                                      None)]
    /\ UNCHANGED <<clientVars, module_HEADERS, wrapperVars, op, pc, per_call,
                   merged, header, request, net, response, raised, printed,
                   gen, pulled, yielded, aggregated_completion, final_response,
                   result, conn, formVars>>

\* One iteration of the loop of one of the calls.
StepFold ==
    /\ pc = "idle"
    /\ \E i \in CallIds :
          /\ calls[i].state \in {"created", "suspended"}
          /\ LET first == calls[i].state = "created"
                 h == StreamHeader(JsonHeader)
                 s == IF first THEN FirstEvent(calls[i].net)
                      ELSE NextEvent(calls[i].net, calls[i].pulled)
                 stored == IF ~first THEN spoofed_headers
                           ELSE IF h.exc = NoExc THEN StoredSpoofed(h.ret[1])
                           ELSE StoredSpoofed(JsonHeader)
             IN  /\ calls' = [calls EXCEPT
                                 ![i] = [FoldOn(calls, i, s) EXCEPT
                                           !.header = IF first THEN h.ret
                                                      ELSE calls[i].header]]
                 /\ spoofed_headers' = stored
                 /\ module_HEADERS' = ModuleHeadersAfter(stored)
    /\ UNCHANGED <<impl, session_key, user_agent, wrapperVars, op, pc,
                   per_call, merged, header, request, net, response, raised,
                   printed, gen, pulled, yielded, aggregated_completion,
                   final_response, result, conn, formVars>>

\* The caller of a call that is over drops its value.
ReturnFold ==
    /\ pc = "idle"
    /\ \E i \in CallIds :
          /\ calls[i].state = "done"
          /\ calls' = [calls EXCEPT ![i] = NoCall]
    /\ UNCHANGED <<clientVars, module_HEADERS, wrapperVars, op, pc, per_call,
                   merged, header, request, net, response, raised, printed,
                   gen, pulled, yielded, aggregated_completion, final_response,
                   result, conn, formVars>>

(***************************************************************************)
(* claude/claude_wrapper.py: ClaudeWrapper over a ClaudeClient.  Each      *)
(* wrapper operation is one step; the client methods it calls are taken by *)
(* their values against the network, computed as the client computes them. *)
(***************************************************************************)
Uuids == {"c1", "c2"}

\* What the network may do to one request of the wrapper's client: a
\* response with one of the bodies, a 500, or a dropped connection.
WrapperNets(bodies) ==
    { Net(NoExc, 200, b, NoExc, <<>>) : b \in bodies }
    \cup { Net(Exc("HTTPError", Some(500), "Internal Server Error"),
               200, "", NoExc, <<>>),
           Net(Exc("RemoteDisconnected", None,
                   "Remote end closed connection without response"),
               200, "", NoExc, <<>>) }

ListBodies ==
    { "[]", "[{\"uuid\": \"c1\", \"name\": \"n1\"}]",
      "[{\"uuid\": \"c1\", \"name\": \"n1\"}, {\"uuid\": \"c2\", \"name\": \"n2\"}]" }

\* ClaudeClient methods that end with "if not response.ok: return None ...
\* return response.json()": create_conversation, get_conversations_from_org,
\* generate_conversation_title.
client_json_value(n) == JsonOrNone(safe_request_read(n))

\* ClaudeClient.delete_conversation: "return response.ok"
client_delete_value(n) ==
    LET r == safe_request_read(n)
    IN  IF r.exc # NoExc THEN Raised(r.exc) ELSE Returned(r.ret[1].ok)

\* How a client call ended, as the wrapper's tests see it.
Outcome(v) ==
    IF v.exc # NoExc THEN "raise"
    ELSE IF v.ret[1] = None THEN "none"
    ELSE "value"

DeleteOutcome(v) ==
    IF v.exc # NoExc THEN "raise" ELSE IF v.ret[1] THEN "true" ELSE "false"

\* One client call of a wrapper operation.
StepRec(call, conversation, outcome, message) ==
    [call |-> call, conversation |-> conversation, outcome |-> outcome,
     message |-> message]

\* ClaudeWrapper._get_conversation_or_context(override_conversation)
get_conversation_or_context(override_conversation) ==
    IF override_conversation # None THEN override_conversation
    ELSE current_conversation

\* ContextAfterDelete that clears the context after every deletion.
ContextAfterDeleteAny(cur, used, deleted) == IF deleted THEN None ELSE cur

\* "if conversation_deleted and conversation_to_use ==
\* self._current_conversation: self.clear_conversation_context()"
ContextAfterDelete(cur, used, deleted) ==
    IF deleted /\ Some(used) = cur THEN None ELSE cur

\* The wrapper during an operation: its context, the history of deletions,
\* the uuids delete_all_conversations failed to delete, the client calls
\* made, and the exception that ended the operation.
WrapperState(cur, deleted, failed, made, exc) ==
    [current |-> cur, deleted |-> deleted, failed |-> failed, steps |-> made,
     raised |-> exc]

\* ClaudeWrapper.delete_conversation(used) with v the value of the client's
\* delete_conversation.
DeleteOne(w, used, v) ==
    IF v.exc # NoExc
    THEN [w EXCEPT !.raised = v.exc,
                   !.steps = Append(@, StepRec("delete_conversation", used,
                                               "raise", ""))]
    ELSE [w EXCEPT
             !.current = ContextAfterDelete(w.current, used, v.ret[1]),
             !.deleted = IF v.ret[1] THEN @ \cup {used} ELSE @,
             !.failed = IF v.ret[1] THEN @ ELSE Append(@, used),
             !.steps = Append(@, StepRec("delete_conversation", used,
                                         DeleteOutcome(v), ""))]

\* The loop of delete_all_conversations from the k-th conversation on; vs
\* holds the value of the client's delete for each.
RECURSIVE DeleteAllFrom(_, _, _, _)
DeleteAllFrom(conversations, vs, w, k) ==
    IF k > Len(conversations) \/ w.raised # NoExc THEN w
    ELSE DeleteAllFrom(conversations, vs,
                       DeleteOne(w, conversations[k].uuid, vs[k]), k + 1)

\* The wrapper's state and the value of the operation after it.
WrapperDone(name, w, value) ==
    /\ op' = name
    /\ current_conversation' = w.current
    /\ deleted_since_set' = w.deleted
    /\ steps' = w.steps
    /\ raised' = w.raised
    /\ result' = IF w.raised = NoExc THEN value ELSE None
    /\ UNCHANGED <<clientVars, twoVars, pc, per_call, merged, header, request,
                   net, response, printed, gen, pulled, yielded,
                   aggregated_completion, final_response, conn, formVars>>

WrapperNow == WrapperState(current_conversation, deleted_since_set, <<>>,
                           <<>>, NoExc)

\* ClaudeWrapper.set_conversation_context(conversation_uuid)
set_conversation_context ==
    /\ pc = "idle"
    /\ \E u \in Uuids :
          WrapperDone("set_conversation_context",
                      WrapperState(Some(u), {}, <<>>, <<>>, NoExc), None)

\* ClaudeWrapper.clear_conversation_context()
clear_conversation_context ==
    /\ pc = "idle"
    /\ WrapperDone("clear_conversation_context",
                   WrapperState(None, deleted_since_set, <<>>, <<>>, NoExc),
                   None)

\* ClaudeWrapper.switch_client(new_client, organization_uuid=None): without
\* an organization_uuid it takes get_organizations()[0]['uuid'], which raises
\* before the context is cleared when there is no such element.
switch_client ==
    /\ pc = "idle"
    /\ \/ WrapperDone("switch_client",
                      WrapperState(None, deleted_since_set, <<>>, <<>>, NoExc),
                      None)
       \/ \E n \in WrapperNets({"[]", "[{\"uuid\": \"c1\", \"name\": \"n1\"}]"}) :
             LET v == client_json_value(n)
                 first == StepRec("get_organizations", "", Outcome(v), "")
                 exc == IF v.exc # NoExc THEN v.exc
                        ELSE IF v.ret[1] = None
                        THEN Exc("TypeError", None,
                                 "'NoneType' object is not subscriptable")
                        ELSE IF v.ret[1][1] = <<>>
                        THEN Exc("IndexError", None, "list index out of range")
                        ELSE NoExc
             IN  WrapperDone("switch_client",
                             WrapperState(IF exc = NoExc THEN None
                                          ELSE current_conversation,
                                          deleted_since_set, <<>>, <<first>>,
                                          exc),
                             None)

\* ClaudeWrapper.delete_conversation(conversation_uuid=None)
wrapper_delete_conversation ==
    /\ pc = "idle"
    /\ \E arg \in {None} \cup {Some(u) : u \in Uuids},
          n \in WrapperNets({""}) :
          LET conversation_to_use == get_conversation_or_context(arg)
          IN  IF conversation_to_use = None
              THEN WrapperDone("wrapper_delete_conversation", WrapperNow,
                               Some(FALSE))
              ELSE LET w == DeleteOne(WrapperNow, conversation_to_use[1],
                                      client_delete_value(n))
                   IN  WrapperDone("wrapper_delete_conversation", w,
                                   Some(w.failed = <<>>))

\* ClaudeWrapper.delete_all_conversations(): "for conversation in
\* conversations" raises TypeError when the listing returned None.
delete_all_conversations ==
    /\ pc = "idle"
    /\ \E n \in WrapperNets(ListBodies \cup {"not json"}) :
          LET listed == client_json_value(n)
              first == StepRec("get_conversations_from_org", "",
                               Outcome(listed), "")
              w0 == [WrapperNow EXCEPT !.steps = <<first>>]
          IN  IF listed.exc # NoExc
              THEN WrapperDone("delete_all_conversations",
                               [w0 EXCEPT !.raised = listed.exc], None)
              ELSE IF listed.ret[1] = None
              THEN WrapperDone("delete_all_conversations",
                               [w0 EXCEPT !.raised =
                                   Exc("TypeError", None,
                                       "'NoneType' object is not iterable")],
                               None)
              ELSE LET conversations == listed.ret[1][1]
                   IN  \E ns \in [1..Len(conversations) -> WrapperNets({""})] :
                          LET vs == [k \in 1..Len(conversations) |->
                                        client_delete_value(ns[k])]
                              w == DeleteAllFrom(conversations, vs, w0, 1)
                          IN  WrapperDone("delete_all_conversations", w,
                                          Some(w.failed))

\* start_new_conversation that goes on when the conversation was not created.
start_new_conversation_unchecked(u, initial_message, vc, vs, vl, vt) ==
    LET created == StepRec("create_conversation", u, Outcome(vc), initial_message)
        sent == StepRec("send_message", u, Outcome(vs), initial_message)
        listed == StepRec("get_conversations_from_org", "", Outcome(vl),
                          initial_message)
        titled == StepRec("generate_conversation_title", u, Outcome(vt),
                          initial_message)
        before == IF initial_message # "" THEN <<created, sent>> ELSE <<created>>
    IN  [steps |-> before \o <<listed, titled>>,
         value |-> IF vt.exc # NoExc \/ vt.ret[1] = None
                   THEN Returned(None)
                   ELSE Returned(Some([uuid |-> u, title |-> "T",
                                       response |-> EmptyDict]))]

\* ClaudeWrapper.start_new_conversation with conversation_uuid u: the client
\* calls it makes, in order, and its value; vc, vs, vl, vt are the values of
\* the client's create_conversation, send_message,
\* get_conversations_from_org and generate_conversation_title.
start_new_conversation_value(u, initial_message, vc, vs, vl, vt) ==
    LET created == StepRec("create_conversation", u, Outcome(vc), initial_message)
        sent == StepRec("send_message", u, Outcome(vs), initial_message)
        listed == StepRec("get_conversations_from_org", "", Outcome(vl),
                          initial_message)
        titled == StepRec("generate_conversation_title", u, Outcome(vt),
                          initial_message)
        before == IF initial_message # "" THEN <<created, sent>> ELSE <<created>>
        send_init_message_result ==
            IF initial_message # "" THEN vs.ret[1][1] ELSE EmptyDict
    IN  IF vc.exc # NoExc THEN [steps |-> <<created>>, value |-> Raised(vc.exc)]
        ELSE IF vc.ret[1] = None
        THEN [steps |-> <<created>>, value |-> Returned(None)]
        ELSE IF initial_message # "" /\ vs.exc # NoExc
        THEN [steps |-> before, value |-> Raised(vs.exc)]
        ELSE IF initial_message # "" /\ vs.ret[1] = None
        THEN [steps |-> before, value |-> Returned(None)]
        ELSE IF vl.exc # NoExc
        THEN [steps |-> Append(before, listed), value |-> Raised(vl.exc)]
        ELSE IF vt.exc # NoExc
        THEN [steps |-> before \o <<listed, titled>>, value |-> Raised(vt.exc)]
        ELSE IF vt.ret[1] = None
        THEN [steps |-> before \o <<listed, titled>>, value |-> Returned(None)]
        ELSE IF "title" \notin DOMAIN vt.ret[1][1]
        THEN [steps |-> before \o <<listed, titled>>,
              value |-> Raised(Exc("KeyError", None, "'title'"))]
        ELSE [steps |-> before \o <<listed, titled>>,
              value |-> Returned(Some([uuid |-> u,
                                       title |-> vt.ret[1][1]["title"],
                                       response |-> send_init_message_result]))]

InitialMessages == {"", "hi"}

\* What the network may do to the initial message: no event, a fragment and
\* the final event, an event that is not JSON, or a 500.
WrapperSendNets ==
    { Net(NoExc, 200, "", NoExc, evs) :
          evs \in { <<>>,
                    << "{\"completion\": \"A\", \"model\": \"m1\"}",
                       "{\"completion\": \"C\", \"stop_reason\": \"stop_sequence\", \"model\": \"m1\"}" >>,
                    << "not json" >> } }
    \cup { Net(Exc("HTTPError", Some(500), "Internal Server Error"),
               200, "", NoExc, <<>>) }

\* ClaudeWrapper.start_new_conversation(conversation_name, initial_message)
start_new_conversation ==
    /\ pc = "idle"
    /\ \E u \in Uuids, initial_message \in InitialMessages,
          nc \in WrapperNets({"{\"uuid\": \"c1\"}"}),
          ns \in WrapperSendNets,
          nl \in WrapperNets(ListBodies),
          nt \in WrapperNets({"{\"title\": \"T\"}", "{\"uuid\": \"c1\"}"}) :
          LET v == start_new_conversation_value(
                       u, initial_message, client_json_value(nc),
                       send_message_value(ns), client_json_value(nl),
                       client_json_value(nt))
          IN  WrapperDone("start_new_conversation",
                          [WrapperNow EXCEPT !.steps = v.steps,
                                             !.raised = v.value.exc],
                          IF v.value.exc = NoExc THEN v.value.ret[1] ELSE None)

Next ==
    \/ Return
    \/ get_organizations
    \/ create_conversation
    \/ delete_conversation
    \/ convert_file
    \/ request_internal
    \/ send_message
    \/ FoldStep
    \/ send_message_stream
    \/ LiveNext
    \/ LiveAbandon
    \/ Collect
    \/ call_json

Spec == Init /\ [][Next]_vars

\* FormData and post_form_data used directly, beside a default client.
InitForm == Init /\ impl = "ClaudeClient" /\ spoofed_headers = HEADERS

NextForm ==
    \/ Return
    \/ FormData_new
    \/ add_field
    \/ add_file
    \/ encode
    \/ call_post_form_data
    \/ convert_file

SpecForm == InitForm /\ [][NextForm]_vars

\* Two interleaved folds on one ClaudeClient.
InitTwo == Init /\ impl = "ClaudeClient"

NextTwo ==
    \/ StartFold
    \/ StepFold
    \/ ReturnFold

SpecTwo == InitTwo /\ [][NextTwo]_vars

\* A ClaudeWrapper over a ClaudeClient with the default headers.
InitWrapper == Init /\ impl = "ClaudeClient" /\ spoofed_headers = HEADERS

NextWrapper ==
    \/ set_conversation_context
    \/ clear_conversation_context
    \/ switch_client
    \/ wrapper_delete_conversation
    \/ delete_all_conversations
    \/ start_new_conversation

SpecWrapper == InitWrapper /\ [][NextWrapper]_vars

(***************************************************************************)
(* Properties of the streaming fold.                                       *)
(***************************************************************************)
Folding == op = "send_message"
Streaming == op \in {"send_message", "send_message_stream"}

\* The event data text carries the terminal marker.
Terminal(text) ==
    /\ IsJson(text)
    /\ "stop_reason" \in DOMAIN JsonTable[text]
    /\ JsonTable[text]["stop_reason"] = "stop_sequence"

\* The text of the fragments of a sequence of decoded events, in order.
RECURSIVE FragmentText(_)
FragmentText(events) ==
    IF events = <<>> THEN ""
    ELSE (IF "completion" \in DOMAIN Head(events)
          THEN Head(events)["completion"] ELSE "")
         \o FragmentText(Tail(events))

\* The events of the network's script decoded, when all of them are JSON.
ScriptEvents == [i \in 1..Len(net.events) |-> JsonTable[net.events[i]]]
AllJson == \A i \in 1..Len(net.events) : IsJson(net.events[i])

\* C1: in folded mode no event is read from the stream after an event with
\* stop_reason = 'stop_sequence' was consumed: every event read before the
\* latest one is not a terminal event, and a call that ended on a terminal
\* event returns the text of the events up to and including it.
FoldStopsAtTerminal ==
    Folding =>
        /\ \A i \in 1..pulled : i < pulled => ~Terminal(net.events[i])
        /\ (pc = "done" /\ pulled > 0 /\ Terminal(net.events[pulled]))
              => /\ result # None
                 /\ result[1]["completion"] = FragmentText(yielded)
                 /\ Len(yielded) = pulled

FoldStopsAtTerminalWitness ==
    /\ Folding /\ pc = "done"
    /\ net.events =
          << "{\"completion\": \"A\", \"model\": \"m1\"}",
             "{\"completion\": \"B\", \"model\": \"m2\"}",
             "{\"completion\": \"C\", \"stop_reason\": \"stop_sequence\", \"model\": \"m1\"}",
             "{\"completion\": \"D\", \"stop_reason\": \"max_tokens\", \"model\": \"m2\"}" >>
    /\ pulled = 3
    /\ result # None
    /\ result[1]["completion"] = "ABC"

\* C2: when the fold returns after consuming at least one event, the record
\* returned has the fields of the last consumed event and 'completion', it
\* agrees with the last consumed event on every field other than
\* 'completion', and its 'completion' is the concatenation, in arrival
\* order, of the fragments of all consumed events.
FoldKeepsLastAndConcatenates ==
    (Folding /\ pc = "done" /\ raised = NoExc /\ yielded # <<>>) =>
        /\ result # None
        /\ LET last == yielded[Len(yielded)]
               r == result[1]
           IN  /\ DOMAIN r = DOMAIN last \cup {"completion"}
               /\ \A k \in DOMAIN last \ {"completion"} : r[k] = last[k]
               /\ r["completion"] = FragmentText(yielded)

FoldKeepsLastAndConcatenatesWitness ==
    /\ Folding /\ pc = "done" /\ raised = NoExc
    /\ yielded = << [completion |-> "A", model |-> "m1"],
                    [model |-> "m3"],
                    [completion |-> "B", model |-> "m2"],
                    [model |-> "m3"] >>
    /\ result = Some([completion |-> "AB", model |-> "m3"])

\* C3: when the stream delivers no event (it closes at once, or the
\* connection fails with a fault sse() swallows) the fold returns None.
FoldOfNothingIsNone ==
    (Folding /\ pc = "done" /\ raised = NoExc /\ Len(net.events) = 0)
        => result = None

FoldOfNothingIsNoneWitness ==
    /\ Folding /\ pc = "done" /\ raised = NoExc
    /\ request # None
    /\ net.open = NoExc /\ net.read = NoExc /\ net.events = <<>>
    /\ gen = "exhausted"
    /\ result = None

\* C4: when the request was sent, the stream delivers at least one event,
\* every event is JSON, none carries stop_reason = 'stop_sequence' and the
\* stream then closes, the fold consumes every event and returns a record
\* whose completion is the concatenation of all the fragments in order.
FoldWithoutTerminalConsumesAll ==
    (Folding /\ pc = "done" /\ request # None
        /\ net.open = NoExc /\ net.read = NoExc /\ net.events # <<>> /\ AllJson
        /\ \A i \in 1..Len(net.events) : ~Terminal(net.events[i]))
    => /\ pulled = Len(net.events)
       /\ gen = "exhausted"
       /\ raised = NoExc
       /\ result # None
       /\ result[1]["completion"] = FragmentText(ScriptEvents)

FoldWithoutTerminalConsumesAllWitness ==
    /\ Folding /\ pc = "done"
    /\ net.read = NoExc
    /\ net.events =
          << "{\"completion\": \"A\", \"model\": \"m1\"}",
             "{\"completion\": \"D\", \"stop_reason\": \"max_tokens\", \"model\": \"m2\"}",
             "{\"completion\": \"B\", \"model\": \"m2\"}" >>
    /\ pulled = 3
    /\ result # None
    /\ result[1]["completion"] = "ADB"

(***************************************************************************)
(* Properties of the endings of a stream.                                  *)
(***************************************************************************)
\* The generator has ended and what ended it was a transport failure: the
\* connection could not be opened, or it broke after the last event read.
EndedByTransportFailure ==
    /\ Streaming /\ request # None
    /\ gen \in {"exhausted", "raised"}
    /\ \/ net.open # NoExc
       \/ /\ net.read # NoExc /\ pulled = Len(net.events)
          /\ (gen = "raised" => raised = net.read)

\* C5: a stream that ended because of a transport failure is not seen by its
\* consumer as a stream that ended normally, that is, as a generator that is
\* exhausted without an exception.
FailedStreamIsDistinguishable ==
    EndedByTransportFailure => ~(gen = "exhausted" /\ raised = NoExc)

\* C6: no transport failure of a stream, while connecting or between events,
\* is raised into the iteration of the consumer.
StreamFailureNotRaised ==
    Streaming => raised \notin OpenFaults \cup StreamFaults

(***************************************************************************)
(* Properties of the non-streaming transport.                              *)
(***************************************************************************)
Plain ==
    op \in {"get_organizations", "create_conversation", "delete_conversation",
            "convert_file"}

\* C7: every network or protocol failure of get, post, delete and
\* post_form_data comes back as a Response with ok = false; none leaves the
\* call as an exception.
TransportFaultsBecomeResponses ==
    (Plain /\ request # None) =>
        /\ raised \notin OpenFaults \cup ReadFaults
        /\ (net.open # NoExc \/ net.read # NoExc)
              => (response # None /\ ~response[1].ok)

\* C8: a GET answered with HTTP 500 returns ok = false, status_code = 500, a
\* non-empty error and empty data.
Get500 ==
    (op = "get_organizations"
        /\ net.open = Exc("HTTPError", Some(500), "Internal Server Error"))
    => /\ response # None
       /\ ~response[1].ok
       /\ response[1].status_code = Some(500)
       /\ response[1].error # None
       /\ response[1].error[1] # ""
       /\ response[1].data = ""

\* C9: a Response returned by the non-streaming transport with ok = true has
\* no error and holds the whole body the server sent; one with ok = false
\* holds empty data.
ResponseInvariant ==
    (Plain /\ response # None) =>
        /\ response[1].ok =>
              (response[1].error = None /\ response[1].data = net.body)
        /\ ~response[1].ok => response[1].data = ""

ResponseInvariantWitness ==
    /\ op = "get_organizations"
    /\ response = Some(Response(TRUE, "not json", Some(201), None))

ResponseInvariantFailedWitness ==
    /\ op = "delete_conversation"
    /\ response # None
    /\ ~response[1].ok
    /\ response[1].data = ""

(***************************************************************************)
(* Properties of the header merge.                                         *)
(***************************************************************************)
\* C10: in the header a call merges (for a streaming call: before the accept
\* entry is extended), every key the call sets itself has the call's value,
\* also when the spoofed headers name it, and every key only the spoofed
\* headers name has the spoofed value.
MergePrecedence ==
    (op # "none" /\ merged # EmptyDict) =>
        /\ DOMAIN merged = DOMAIN per_call \cup DOMAIN spoofed_headers
        /\ \A k \in DOMAIN per_call : merged[k] = per_call[k]
        /\ \A k \in DOMAIN spoofed_headers \ DOMAIN per_call :
              merged[k] = spoofed_headers[k]

MergePrecedenceWitness ==
    /\ op = "create_conversation"
    /\ "cookie" \in DOMAIN spoofed_headers
    /\ spoofed_headers["cookie"] = "sessionKey=other"
    /\ merged["cookie"] = "sessionKey=sk-ant-sid01-a"
    /\ spoofed_headers["content-type"] = "text/plain"
    /\ merged["content-type"] = "application/json"
    /\ merged["dnt"] = "0"

(***************************************************************************)
(* Properties of the accept header of a streaming call.                    *)
(***************************************************************************)
\* The generator of a streaming call has run its first lines.
StreamBegun == Streaming /\ gen \notin {"none", "created"}

\* C11: when the merged header of a streaming call holds a non-empty accept
\* value, the accept header sent is that value, kept, with a comma and the
\* event-stream media type (written twice by the code) appended.
AcceptIsExtended ==
    (StreamBegun /\ "accept" \in DOMAIN merged /\ merged["accept"] # "") =>
        /\ request # None
        /\ header["accept"] =
              merged["accept"] \o ",text/event-stream,text/event-stream"
        /\ request[1].headers["Accept"] = header["accept"]
        /\ \A k \in DOMAIN merged \ {"accept"} : header[k] = merged[k]

AcceptIsExtendedWitness ==
    /\ StreamBegun
    /\ spoofed_headers = HEADERS
    /\ request # None
    /\ request[1].headers["Accept"] = "*/*,text/event-stream,text/event-stream"

\* C12: when the merged header of a streaming call holds no accept entry,
\* the request is still sent, with the event-stream media type as its only
\* accept value.
AcceptAbsentStillSent ==
    (StreamBegun /\ "accept" \notin DOMAIN spoofed_headers) =>
        /\ raised.cls # "KeyError"
        /\ request # None
        /\ request[1].headers["Accept"] = "text/event-stream,text/event-stream"

(***************************************************************************)
(* Properties of post_form_data.                                           *)
(***************************************************************************)
PostedForm == op = "post_form_data"

\* C13: post_form_data leaves the header dict of its caller as it was, when
\* the upload succeeds and when it fails: the caller's dict is still one of
\* the dicts callers pass, and what was sent is a changed copy of it.
CallerHeaderUntouched ==
    PostedForm =>
        /\ merged \in CallerHeaders
        /\ request # None =>
              /\ header # merged
              /\ \A k \in DOMAIN merged \ {"content-type", "content-length"} :
                    header[k] = merged[k]

CallerHeaderUntouchedWitness ==
    /\ PostedForm
    /\ request # None
    /\ response # None
    /\ ~response[1].ok
    /\ "content-type" \in DOMAIN merged
    /\ merged["content-type"] = "text/plain"
    /\ header["content-type"] # "text/plain"

\* C14: the request of post_form_data carries the content type
\* "multipart/form-data; boundary=<b>" with b the boundary of the body, and
\* the byte length of the body as content length, whatever the caller gave
\* for the two; the body sent is the encoded body.
FormRequestHeaders ==
    (PostedForm /\ request # None) =>
        /\ encode_result # None
        /\ request[1].method = "POST"
        /\ request[1].data = Some(encode_result[1].body)
        /\ LET body == request[1].data[1]
           IN  /\ "Content-type" \in DOMAIN request[1].headers
               /\ "Content-length" \in DOMAIN request[1].headers
               /\ \E b \in Boundaries :
                     /\ body[Len(body) - 2] = b
                     /\ \A i \in 1..Len(body) :
                           body[i] \in Boundaries => body[i] = b
                     /\ request[1].headers["Content-type"] =
                           "multipart/form-data; boundary=" \o b
               /\ request[1].headers["Content-length"] = ToString(ByteLen(body))

FormRequestHeadersWitness ==
    /\ PostedForm
    /\ request # None
    /\ "content-length" \in DOMAIN merged
    /\ merged["content-length"] = "999"
    /\ request[1].headers["Content-length"] # "999"
    /\ request[1].headers["Content-type"] # "text/plain"
    /\ form_data_obj[1].files # <<>>
    /\ form_data_obj[1].fields # <<>>

(***************************************************************************)
(* Properties of FormData.  The reference parser splits a body at its      *)
(* boundary lines: "--" and the boundary at the start of a line.  The CRLF *)
(* before a boundary line belongs to the line, not to the part before it.  *)
(***************************************************************************)
\* C15: a FormData that has been constructed holds plain strings and
\* (file name, file handle) pairs only; entries of another shape are
\* refused when the object is built.
FormEntriesWellShaped ==
    form_data_obj # None =>
        /\ \A i \in 1..Len(form_data_obj[1].fields) :
              form_data_obj[1].fields[i].shape = "str"
        /\ \A i \in 1..Len(form_data_obj[1].files) :
              form_data_obj[1].files[i].shape = "pair"

\* The boundary named by the content type of an encoding.
BoundaryOf(enc) ==
    CHOOSE b \in Boundaries :
        enc.content_type = "multipart/form-data; boundary=" \o b

IsDelim(body, b, i) ==
    /\ i < Len(body)
    /\ body[i] = "--"
    /\ body[i + 1] = b
    /\ (i = 1 \/ body[i - 1] = CRLF)

\* The positions of the boundary lines of body from position i on, in order.
RECURSIVE DelimsFrom(_, _, _)
DelimsFrom(body, b, i) ==
    IF i >= Len(body) THEN <<>>
    ELSE IF IsDelim(body, b, i) THEN <<i>> \o DelimsFrom(body, b, i + 1)
    ELSE DelimsFrom(body, b, i + 1)

\* The boundary line at position i is a closing one.
IsClose(body, i) == i + 2 <= Len(body) /\ body[i + 2] = "--"

Part(name, filename, content) ==
    [name |-> name, filename |-> filename, content |-> content]

Malformed == Part("", None, <<"malformed">>)

\* The headers and the content of one part: a content-disposition line,
\* for a file a content-type line, a blank line, and the content.
ParsePart(atoms) ==
    IF /\ Len(atoms) >= 5
       /\ atoms[1] = "content-disposition: form-data; name=\""
       /\ atoms[3] = "\""
       /\ atoms[4] = CRLF
       /\ atoms[5] = CRLF
    THEN Part(atoms[2], None, SubSeq(atoms, 6, Len(atoms)))
    ELSE IF /\ Len(atoms) >= 10
            /\ atoms[1] = "content-disposition: form-data; name=\""
            /\ atoms[3] = "\"; filename=\""
            /\ atoms[5] = "\""
            /\ atoms[6] = CRLF
            /\ atoms[7] = "content-type: "
            /\ atoms[9] = CRLF
            /\ atoms[10] = CRLF
    THEN Part(atoms[2], Some(atoms[4]), SubSeq(atoms, 11, Len(atoms)))
    ELSE Malformed

\* The body is parts between boundary lines and ends with the one closing
\* boundary line.
WellDelimited(body, b) ==
    LET d == DelimsFrom(body, b, 1)
    IN  /\ Len(d) >= 1
        /\ d[1] \in {1, 2}
        /\ \A k \in 1..(Len(d) - 1) :
              /\ ~IsClose(body, d[k])
              /\ body[d[k] + 2] = CRLF
              /\ d[k] + 3 <= d[k + 1] - 1
        /\ IsClose(body, d[Len(d)])
        /\ Len(body) = d[Len(d)] + 3
        /\ body[Len(body)] = CRLF

\* The parts of a well delimited body, in order.
ParseMultipart(body, b) ==
    LET d == DelimsFrom(body, b, 1)
    IN  [k \in 1..(Len(d) - 1) |->
            ParsePart(SubSeq(body, d[k] + 3, d[k + 1] - 2))]

\* The form on its own has been encoded.
Encoded == op = "FormData" /\ form_data_obj # None /\ encode_result # None

\* C16: the encoding of a form of plain strings only, the empty form
\* included, is one boundary-delimited segment per field, in order, each
\* ending where the next boundary line starts, and then the one closing
\* boundary line, the boundary with "--" after it.
StringFormSegments ==
    (Encoded /\ form_data_obj[1].files = <<>>) =>
        LET fields == form_data_obj[1].fields
            body == encode_result[1].body
            b == BoundaryOf(encode_result[1])
            d == DelimsFrom(body, b, 1)
        IN  /\ Len(d) = Len(fields) + 1
            /\ WellDelimited(body, b)
            /\ \A k \in 1..Len(fields) :
                  ParsePart(SubSeq(body, d[k] + 3, d[k + 1] - 2)) =
                      Part(fields[k].key, None, fields[k].value)
            /\ SubSeq(body, Len(body) - 4, Len(body)) =
                  <<CRLF, "--", b, "--", CRLF>>

StringFormSegmentsWitness ==
    /\ Encoded
    /\ form_data_obj[1].files = <<>>
    /\ Len(form_data_obj[1].fields) = 2
    /\ form_data_obj[1].fields[1].value = <<"a", CRLF, "--", "b", CRLF>>
    /\ form_data_obj[1].fields[2].value = <<>>

StringFormEmptyWitness ==
    /\ Encoded
    /\ form_data_obj[1].files = <<>>
    /\ form_data_obj[1].fields = <<>>
    /\ Len(encode_result[1].body) = 5

\* C17: for a form with a file, the reference parser recovers from the
\* encoded body every plain field with its value and every file with its
\* name and its bytes, unchanged and in order.
FormRoundTrip ==
    (Encoded /\ form_data_obj[1].files # <<>>) =>
        LET fields == form_data_obj[1].fields
            files == form_data_obj[1].files
            body == encode_result[1].body
            b == BoundaryOf(encode_result[1])
        IN  /\ WellDelimited(body, b)
            /\ ParseMultipart(body, b) =
                  [k \in 1..Len(fields) |->
                      Part(fields[k].key, None, fields[k].value)]
                  \o [k \in 1..Len(files) |->
                      Part(files[k].key, Some(files[k].file_name),
                           files[k].value)]

FormRoundTripWitness ==
    /\ Encoded
    /\ Len(form_data_obj[1].fields) = 1
    /\ Len(form_data_obj[1].files) = 2
    /\ form_data_obj[1].files[1].value = <<CRLF, "--", "PK", CRLF, CRLF>>
    /\ form_data_obj[1].files[2].value = <<"hello">>

\* The form {"orgUuid": "org-123", "file": ("notes.txt", <handle on hello>)}
ScenarioForm ==
    /\ Len(form_data_obj[1].fields) = 1
    /\ Len(form_data_obj[1].files) = 1
    /\ form_data_obj[1].fields[1].key = "orgUuid"
    /\ form_data_obj[1].fields[1].value = <<"org-123">>
    /\ form_data_obj[1].files[1].key = "file"
    /\ form_data_obj[1].files[1].file_name = "notes.txt"
    /\ form_data_obj[1].files[1].value = <<"hello">>

\* C18: the encoding of the form {orgUuid: "org-123", file: ("notes.txt",
\* hello)} is the orgUuid part, its value right after the blank line, and
\* then the file part, its content right after the blank line; and in every
\* encoding the plain parts come first, each a boundary line, a
\* content-disposition line, a blank line and the value, then the file
\* parts, each a boundary line, a content-disposition line with name and
\* filename, a content-type line, a blank line and the bytes, with CRLF
\* between the parts.
FormLayout ==
    Encoded =>
        LET fields == form_data_obj[1].fields
            files == form_data_obj[1].files
            body == encode_result[1].body
            b == BoundaryOf(encode_result[1])
            parts == ParseMultipart(body, b)
        IN  /\ Len(parts) = Len(fields) + Len(files)
            /\ \A k \in 1..Len(parts) :
                  /\ parts[k] # Malformed
                  /\ parts[k].filename = None <=> k <= Len(fields)
                  /\ parts[k].name = IF k <= Len(fields) THEN fields[k].key
                                     ELSE files[k - Len(fields)].key
            /\ ScenarioForm =>
                  body = << "--", b, CRLF,
                            "content-disposition: form-data; name=\"",
                            "orgUuid", "\"", CRLF,
                            CRLF,
                            "org-123", CRLF,
                            "--", b, CRLF,
                            "content-disposition: form-data; name=\"",
                            "file", "\"; filename=\"", "notes.txt", "\"", CRLF,
                            "content-type: ", "text/plain", CRLF,
                            CRLF,
                            "hello", CRLF,
                            "--", b, "--", CRLF >>

FormLayoutWitness == Encoded /\ ScenarioForm

(***************************************************************************)
(* Properties of the connection and of the live stream.                    *)
(***************************************************************************)
\* C19: when a streaming call is over, by abandonment, by exhaustion or by
\* an error, its connection is no longer open.
ConnectionReleased == (Streaming /\ pc = "done") => conn # "open"

Live == op = "send_message_stream"

\* What the consumer of a live stream holds is, event for event and in the
\* order of arrival, the decoded data of the events read so far; an event
\* that does not decode ends the stream and is the only one not delivered.
LiveInOrder ==
    Live =>
        /\ pulled <= Len(net.events)
        /\ Len(yielded) <= pulled
        /\ pulled <= Len(yielded) + 1
        /\ \A i \in 1..Len(yielded) :
              /\ IsJson(net.events[i])
              /\ yielded[i] = JsonTable[net.events[i]]
        /\ pulled > Len(yielded) =>
              gen = "raised" /\ ~IsJson(net.events[pulled])
        /\ (gen = "exhausted" /\ net.open = NoExc /\ net.read = NoExc) =>
              Len(yielded) = Len(net.events)

\* Within a live call at most one event is read and delivered in a step,
\* and only in a step in which the consumer asks for the next element.
LiveOnDemand ==
    (Live /\ op' = op) =>
        \/ pulled' = pulled /\ yielded' = yielded
        \/ /\ pc = "streaming"
           /\ pulled' = pulled + 1
           /\ yielded' = yielded \/ Len(yielded') = Len(yielded) + 1

\* C20: in live mode the consumer receives exactly one decoded record per
\* server-sent event, in the order of arrival, none dropped, duplicated or
\* reordered, and an event is read only when the consumer asks for the next
\* element.
LiveDelivery == []LiveInOrder /\ [][LiveOnDemand]_vars

LiveDeliveryWitness ==
    /\ Live
    /\ gen = "exhausted"
    /\ Len(net.events) = 3
    /\ Len(yielded) = 3
    /\ yielded[1] # yielded[2]
    /\ yielded[2] = yielded[3]

(***************************************************************************)
(* Properties of decoding.                                                 *)
(***************************************************************************)
\* C21: an event that does not decode ends the whole sequence: the decode
\* error reaches the consumer at that event, the events before it are the
\* only ones delivered, nothing is read after it, and the fold returns no
\* record.
DecodeFailureIsFatal ==
    (Streaming /\ pulled > 0 /\ ~IsJson(net.events[pulled])) =>
        /\ raised = JsonDecodeError
        /\ gen = "raised"
        /\ pc = "done"
        /\ Len(yielded) = pulled - 1
        /\ \A i \in 1..(pulled - 1) : IsJson(net.events[i])
        /\ result = None

DecodeFailureIsFatalWitness ==
    /\ Folding
    /\ raised = JsonDecodeError
    /\ pulled = 2
    /\ Len(net.events) = 3
    /\ aggregated_completion # <<>>
    /\ result = None

\* C22: json() on a Response whose data is not JSON text, such as "not json"
\* or the empty data of a failed Response, raises the decode error there; the
\* error is no transport error, and the Response is still what the transport
\* returned, with its ok, data, status_code and error.
JsonDecodeErrorIsSeparate ==
    (op = "json" /\ ~IsJson(response[1].data)) =>
        /\ raised = JsonDecodeError
        /\ ~IsInstance(raised, SafeCaught)
        /\ result = None
        /\ response = safe_request_read(net).ret
        /\ response[1].ok <=> response[1].error = None

JsonDecodeErrorIsSeparateWitness ==
    /\ op = "json"
    /\ response[1].ok
    /\ response[1].data = "not json"
    /\ response[1].status_code = Some(200)
    /\ raised = JsonDecodeError

JsonOfFailedResponseWitness ==
    /\ op = "json"
    /\ ~response[1].ok
    /\ response[1].data = ""
    /\ response[1].error # None
    /\ raised = JsonDecodeError

(***************************************************************************)
(* Properties of the client's configuration.                               *)
(***************************************************************************)
\* C23: every request a ClaudeClient sends carries the cookie
\* "sessionKey=<session_key>" of the client's own session key, also when
\* the spoofed headers hold a cookie of their own.
CookieIsSessionKey ==
    (impl = "ClaudeClient" /\ request # None) =>
        /\ "cookie" \in DOMAIN header
        /\ header["cookie"] = "sessionKey=" \o session_key
        /\ "Cookie" \in DOMAIN request[1].headers
        /\ request[1].headers["Cookie"] = "sessionKey=" \o session_key

CookieIsSessionKeyWitness ==
    /\ impl = "ClaudeClient"
    /\ Streaming
    /\ request # None
    /\ "cookie" \in DOMAIN spoofed_headers
    /\ spoofed_headers["cookie"] # request[1].headers["Cookie"]

\* C29: a record returned by the fold of send_message has a completion
\* entry; when no event read carried a fragment it is the empty string.
FoldResultHasCompletion ==
    (Folding /\ result # None) =>
        /\ "completion" \in DOMAIN result[1]
        /\ aggregated_completion = <<>> => result[1]["completion"] = ""

FoldResultHasCompletionWitness ==
    /\ Folding
    /\ result # None
    /\ pulled = 2
    /\ aggregated_completion = <<>>
    /\ result[1]["completion"] = ""

(***************************************************************************)
(* Properties of the file handles of a form.                               *)
(***************************************************************************)
AllClosed(form) == \A i \in 1..Len(form.files) : form.files[i].closed

\* Once encode() has returned a body, alone or within post_form_data or
\* convert_file, no file handle of the form is open.
ClosedAfterEncode ==
    (form_data_obj # None /\ encode_result # None) => AllClosed(form_data_obj[1])

\* No step gives a form with a file that has been encoded a second body.
NoSecondBody ==
    (Encoded /\ form_data_obj[1].files # <<>>) => encode_result' = None

\* C30: encode() closes every file handle the form holds: after an encode
\* that returned, and so after post_form_data or convert_file, none is open,
\* and encoding the same form with a file again yields no second body.
EncodeClosesHandles == []ClosedAfterEncode /\ [][NoSecondBody]_vars

EncodeClosesHandlesWitness ==
    /\ op = "FormData"
    /\ form_data_obj # None
    /\ Len(form_data_obj[1].files) = 2
    /\ AllClosed(form_data_obj[1])
    /\ encode_result = None
    /\ raised.cls = "ValueError"

UploadClosesHandleWitness ==
    /\ op = "convert_file"
    /\ request # None
    /\ form_data_obj # None
    /\ Len(form_data_obj[1].files) = 1
    /\ AllClosed(form_data_obj[1])

\* The header a streaming call may send for the spoofed headers the client
\* was made with: the accept entry extended once.
AcceptOnce(hdr) ==
    "accept" \in DOMAIN spoofed_headers =>
        hdr["accept"] \in
            { spoofed_headers["accept"] \o ",text/event-stream,text/event-stream",
              "text/event-stream,text/event-stream" }

ConfigIsInitial ==
    /\ module_HEADERS = HEADERS
    /\ spoofed_headers \in {InitSpoofed(a) : a \in SpoofedArgs}
    /\ \A i \in CallIds :
          calls[i].header # None => AcceptOnce(calls[i].header[1])

ConfigUnchanged ==
    /\ session_key' = session_key
    /\ spoofed_headers' = spoofed_headers
    /\ module_HEADERS' = module_HEADERS

\* C24: no call changes the client's session key, its spoofed headers or
\* the module's default header dict, which the spoofed headers may be; the
\* accept entry a streaming call extends is extended in that call's header
\* only, so each call's header is built from the headers the client was
\* made with.
ClientConfigUnchanged == []ConfigIsInitial /\ [][ConfigUnchanged]_vars

ClientConfigUnchangedWitness ==
    /\ spoofed_headers = HEADERS
    /\ calls[1].state = "done"
    /\ calls[2].state = "suspended"
    /\ calls[1].header # None
    /\ calls[2].header # None
    /\ calls[2].header[1]["accept"] = "*/*,text/event-stream,text/event-stream"

\* C25: a fold that runs interleaved with another fold on the same client
\* ends with the value it has when it runs alone against its own stream.
InterleavedFoldsAreIndependent ==
    \A i \in CallIds :
        calls[i].state = "done" =>
            LET alone == send_message_value(calls[i].net)
            IN  /\ calls[i].raised = alone.exc
                /\ alone.exc = NoExc => calls[i].result = alone.ret[1]
                /\ alone.exc # NoExc => calls[i].result = None

InterleavedFoldsAreIndependentWitness ==
    /\ calls[1].state = "done"
    /\ calls[2].state = "done"
    /\ calls[1].result # None
    /\ calls[2].result # None
    /\ calls[1].result[1]["completion"] = "AC"
    /\ calls[2].result[1]["completion"] = "C"
    /\ calls[1].pulled = 2


(***************************************************************************)
(* ClaudeWrapper: conversation context and multi-step operations.          *)
(***************************************************************************)
ContextClearedExactly ==
    op' = "wrapper_delete_conversation" /\ vars' # vars =>
        current_conversation' =
            IF /\ Len(steps') = 1
               /\ steps'[1].outcome = "true"
               /\ Some(steps'[1].conversation) = current_conversation
            THEN None
            ELSE current_conversation

ContextNotDeleted ==
    current_conversation # None =>
        current_conversation[1] \notin deleted_since_set

\* C26: delete_conversation clears the context exactly when the client's
\* deletion succeeded and the deleted conversation is the current context,
\* and leaves it unchanged otherwise; so the context never names a
\* conversation deleted successfully since the context was last set.
ContextClearedOnOwnDeletion ==
    []ContextNotDeleted /\ [][ContextClearedExactly]_vars

\* Another conversation than the context was deleted and the context stays.
ContextClearedOnOwnDeletionWitness ==
    /\ op = "wrapper_delete_conversation"
    /\ Len(steps) = 1
    /\ steps[1].outcome = "true"
    /\ current_conversation # None
    /\ deleted_since_set # {}

\* The context itself was deleted and is cleared.
ContextClearedWitness ==
    /\ op = "wrapper_delete_conversation"
    /\ Len(steps) = 1
    /\ steps[1].outcome = "true"
    /\ current_conversation = None
    /\ steps[1].conversation \in deleted_since_set

\* C27: delete_all_conversations returns a list in every case, including
\* when the conversation listing itself fails.
DeleteAllReturnsList ==
    /\ op = "delete_all_conversations"
    /\ steps[1].outcome = "none"
    => /\ raised = NoExc
       /\ result # None

\* What delete_all_conversations returns when the listing succeeded and no
\* call raised: the uuids whose deletion failed, in listing order.
DeleteAllReturnsFailed ==
    op = "delete_all_conversations" /\ raised = NoExc =>
        /\ result # None
        /\ Len(result[1]) =
               Cardinality({ k \in 2..Len(steps) : steps[k].outcome = "false" })
        /\ \A k \in 2..Len(steps) :
              steps[k].outcome = "false" <=>
                  \E j \in 1..Len(result[1]) :
                      result[1][j] = steps[k].conversation

StartOrder(initial_message) ==
    IF initial_message # ""
    THEN << "create_conversation", "send_message",
            "get_conversations_from_org", "generate_conversation_title" >>
    ELSE << "create_conversation", "get_conversations_from_org",
            "generate_conversation_title" >>

Required(call) == call # "get_conversations_from_org"

\* C28: start_new_conversation calls create, send (for a non-empty initial
\* message), list, title in this order, stops at the first required step
\* that returns None and then returns None, and a result that is not None
\* carries the uuid given to create_conversation.
StartStepsInOrder ==
    op = "start_new_conversation" =>
        LET order == StartOrder(steps[1].message)
        IN  /\ Len(steps) \in 1..Len(order)
            /\ \A k \in 1..Len(steps) : steps[k].call = order[k]
            /\ \A k \in 1..(Len(steps) - 1) :
                  \/ steps[k].outcome = "value"
                  \/ ~Required(steps[k].call) /\ steps[k].outcome = "none"
            /\ LET last == steps[Len(steps)]
               IN  /\ Required(last.call) /\ last.outcome = "none" =>
                       raised = NoExc /\ result = None
                   /\ last.outcome = "raise" => raised # NoExc
                   /\ Len(steps) < Len(order) =>
                       \/ last.outcome = "raise"
                       \/ Required(last.call) /\ last.outcome = "none"
            /\ result # None =>
                  /\ Len(steps) = Len(order)
                  /\ \A k \in 1..Len(steps) :
                        Required(steps[k].call) => steps[k].outcome = "value"
                  /\ result[1].uuid = steps[1].conversation
                  /\ \A k \in 1..Len(steps) :
                        Required(steps[k].call) =>
                            steps[k].conversation = result[1].uuid

\* The conversation was created, the initial message answered, the listing
\* failed and the title was generated.
StartStepsInOrderWitness ==
    /\ op = "start_new_conversation"
    /\ Len(steps) = 4
    /\ steps[3].outcome = "none"
    /\ result # None
    /\ result[1].uuid = "c2"
    /\ result[1].response # EmptyDict

\* The initial message got no response and no title was asked for.
StartStopsWitness ==
    /\ op = "start_new_conversation"
    /\ Len(steps) = 2
    /\ steps[2].outcome = "none"
    /\ result = None
    /\ raised = NoExc

\* The conversation was not created and nothing else was called.
StartNotCreatedWitness ==
    /\ op = "start_new_conversation"
    /\ Len(steps) = 1
    /\ steps[1].outcome = "none"
    /\ result = None
====
